---- MODULE Spec2Model ----
(***************************************************************************)
(* Inventory MVP: the Inventory aggregate (src/src/domain/inventory.py),   *)
(* the repository over SQLite (src/src/infrastructure/database) and the    *)
(* application service (src/src/application/inventory_service.py).         *)
(*                                                                         *)
(* Two specifications:                                                     *)
(*   SpecAgg  one in-memory aggregate driven by a sequence of              *)
(*            constructor / create / reserve / release / adjust calls;     *)
(*   Spec     concurrent service requests, each with its own session and   *)
(*            publisher, over one shared database.                         *)
(*                                                                         *)
(* Event timestamps (datetime.utcnow defaults) are left out: no code of    *)
(* the core reads them.  Python integers are unbounded, so no width.       *)
(***************************************************************************)
EXTENDS Integers, Sequences, FiniteSets, TLC

\* ------------------------------------------------------------------ bounds
MaxQty == 3      \* largest total / initial quantity drawn as an input
MaxMin == 2      \* largest minimum_stock_level drawn as an input
MaxSeed == 2     \* largest total_quantity of a row stored before the requests
MaxLog == 5      \* most events collected before a caller that keeps them stops

\* ------------------------------------------------------------ identifiers
\* A product_id is a string, modelled as a sequence of characters so that
\* str.strip() is computed and not assumed.
IsSpace(c) == c = " "

RECURSIVE LStrip(_)
LStrip(s) == IF s # <<>> /\ IsSpace(Head(s)) THEN LStrip(Tail(s)) ELSE s

RECURSIVE RStrip(_)
RStrip(s) ==
    IF s # <<>> /\ IsSpace(s[Len(s)]) THEN RStrip(SubSeq(s, 1, Len(s) - 1)) ELSE s

Strip(s) == RStrip(LStrip(s))

RawIds == { <<>>, <<" ">>, <<"A">>, <<" ", "A", " ">>, <<"B">> }
Products == { <<"A">>, <<"B">> }

\* ------------------------------------------------------------ exceptions
NoError == "none"
InvalidQuantityError == "InvalidQuantity"
InsufficientStockError == "InsufficientStock"
InventoryNotFoundError == "NotFound"
InventoryAlreadyExistsError == "AlreadyExists"
StaleDataError == "StaleData"      \* sqlalchemy.orm.exc, raised by the flush
IntegrityError == "Integrity"      \* sqlalchemy.exc, raised by the flush

\* --------------------------------------------------------------- events
InventoryCreated(pid, initial, minimum) ==
    [type |-> "InventoryCreated", product_id |-> pid,
     initial_quantity |-> initial, minimum_stock_level |-> minimum]

InventoryReserved(pid, q) ==
    [type |-> "InventoryReserved", product_id |-> pid, quantity |-> q]

InventoryReleased(pid, q) ==
    [type |-> "InventoryReleased", product_id |-> pid, quantity |-> q]

InventoryAdjusted(pid, old, new) ==
    [type |-> "InventoryAdjusted", product_id |-> pid,
     old_quantity |-> old, new_quantity |-> new]

LowStockDetected(pid, avail, minimum) ==
    [type |-> "LowStockDetected", product_id |-> pid,
     available_quantity |-> avail, minimum_stock_level |-> minimum]

\* ------------------------------------------------------------- aggregate
Inventory(pid, total, reserved, minimum) ==
    [product_id |-> pid, total_quantity |-> total,
     reserved_quantity |-> reserved, minimum_stock_level |-> minimum]

\* _validate_invariants: the error it raises, NoError when it returns.
ValidateInvariants(inv) ==
    IF inv.total_quantity < 0 THEN InvalidQuantityError
    ELSE IF inv.reserved_quantity < 0 THEN InvalidQuantityError
    ELSE IF inv.minimum_stock_level < 0 THEN InvalidQuantityError
    ELSE IF inv.reserved_quantity > inv.total_quantity THEN InvalidQuantityError
    ELSE NoError

available_quantity(inv) == inv.total_quantity - inv.reserved_quantity

\* Variant of LowStockBelow: the threshold itself counts as low.
LowStockAtOrBelow(avail, minimum) == avail <= minimum

\* The inline low-stock check shared by create, reserve and adjust.
LowStockBelow(avail, minimum) == avail < minimum

LowStockEvents(inv) ==
    IF LowStockBelow(available_quantity(inv), inv.minimum_stock_level)
    THEN << LowStockDetected(inv.product_id, available_quantity(inv),
                             inv.minimum_stock_level) >>
    ELSE << >>

\* The outcome of a call: the error raised (NoError on return), the object
\* as the call leaves it, and the events returned.  A mutator assigns the
\* field BEFORE it re-validates, so an error raised by the re-validation
\* leaves the assignment in place.
Outcome(err, inv, events) == [err |-> err, inv |-> inv, events |-> events]

NoAgg == [product_id |-> <<>>, total_quantity |-> -1,
          reserved_quantity |-> -1, minimum_stock_level |-> -1]

\* Variant of Construct: a reservation above the total is cut down to it.
ConstructClamped(pid, total, reserved, minimum) ==
    LET r == IF reserved > total /\ total >= 0 THEN total ELSE reserved
        inv == Inventory(pid, total, r, minimum) IN
    IF ValidateInvariants(inv) # NoError
    THEN Outcome(ValidateInvariants(inv), NoAgg, << >>)
    ELSE Outcome(NoError, inv, << >>)

\* Inventory(...): the dataclass constructor followed by __post_init__.
Construct(pid, total, reserved, minimum) ==
    LET inv == Inventory(pid, total, reserved, minimum) IN
    IF ValidateInvariants(inv) # NoError
    THEN Outcome(ValidateInvariants(inv), NoAgg, << >>)
    ELSE Outcome(NoError, inv, << >>)

\* Variant of Create: the product_id is only tested for being empty.
CreateNoStrip(pid, initial, minimum) ==
    IF pid = <<>> THEN Outcome(InvalidQuantityError, NoAgg, << >>)
    ELSE IF initial < 0 THEN Outcome(InvalidQuantityError, NoAgg, << >>)
    ELSE IF minimum < 0 THEN Outcome(InvalidQuantityError, NoAgg, << >>)
    ELSE LET made == Construct(Strip(pid), initial, 0, minimum) IN
         IF made.err # NoError THEN made
         ELSE Outcome(NoError, made.inv,
                      << InventoryCreated(made.inv.product_id, initial, minimum) >>
                          \o LowStockEvents(made.inv))

\* Variant of Create: only the leading whitespace is removed.
CreateLeftStrip(pid, initial, minimum) ==
    IF pid = <<>> \/ Strip(pid) = <<>> THEN Outcome(InvalidQuantityError, NoAgg, << >>)
    ELSE IF initial < 0 THEN Outcome(InvalidQuantityError, NoAgg, << >>)
    ELSE IF minimum < 0 THEN Outcome(InvalidQuantityError, NoAgg, << >>)
    ELSE LET made == Construct(LStrip(pid), initial, 0, minimum) IN
         IF made.err # NoError THEN made
         ELSE Outcome(NoError, made.inv,
                      << InventoryCreated(made.inv.product_id, initial, minimum) >>
                          \o LowStockEvents(made.inv))

\* Inventory.create
Create(pid, initial, minimum) ==
    IF pid = <<>> \/ Strip(pid) = <<>> THEN Outcome(InvalidQuantityError, NoAgg, << >>)
    ELSE IF initial < 0 THEN Outcome(InvalidQuantityError, NoAgg, << >>)
    ELSE IF minimum < 0 THEN Outcome(InvalidQuantityError, NoAgg, << >>)
    ELSE LET made == Construct(Strip(pid), initial, 0, minimum) IN
         IF made.err # NoError THEN made
         ELSE Outcome(NoError, made.inv,
                      << InventoryCreated(made.inv.product_id, initial, minimum) >>
                          \o LowStockEvents(made.inv))

\* Variant of Reserve: the stock check is left out.
ReserveNoStockCheck(inv, quantity) ==
    IF quantity <= 0 THEN Outcome(InvalidQuantityError, inv, << >>)
    ELSE LET m == [inv EXCEPT !.reserved_quantity = @ + quantity] IN
         IF ValidateInvariants(m) # NoError
         THEN Outcome(ValidateInvariants(m), m, << >>)
         ELSE Outcome(NoError, m,
                      << InventoryReserved(m.product_id, quantity) >>
                          \o LowStockEvents(m))

\* Variant of Reserve: the last available unit cannot be reserved.
ReserveOffByOne(inv, quantity) ==
    IF quantity <= 0 THEN Outcome(InvalidQuantityError, inv, << >>)
    ELSE IF quantity >= available_quantity(inv)
         THEN Outcome(InsufficientStockError, inv, << >>)
    ELSE LET m == [inv EXCEPT !.reserved_quantity = @ + quantity] IN
         IF ValidateInvariants(m) # NoError
         THEN Outcome(ValidateInvariants(m), m, << >>)
         ELSE Outcome(NoError, m,
                      << InventoryReserved(m.product_id, quantity) >>
                          \o LowStockEvents(m))

\* Variant of Reserve: the units are taken out of total_quantity.
ReserveFromTotal(inv, quantity) ==
    IF quantity <= 0 THEN Outcome(InvalidQuantityError, inv, << >>)
    ELSE IF quantity > available_quantity(inv)
         THEN Outcome(InsufficientStockError, inv, << >>)
    ELSE LET m == [inv EXCEPT !.total_quantity = @ - quantity] IN
         IF ValidateInvariants(m) # NoError
         THEN Outcome(ValidateInvariants(m), m, << >>)
         ELSE Outcome(NoError, m,
                      << InventoryReserved(m.product_id, quantity) >>
                          \o LowStockEvents(m))

\* Inventory.reserve
Reserve(inv, quantity) ==
    IF quantity <= 0 THEN Outcome(InvalidQuantityError, inv, << >>)
    ELSE IF quantity > available_quantity(inv)
         THEN Outcome(InsufficientStockError, inv, << >>)
    ELSE LET m == [inv EXCEPT !.reserved_quantity = @ + quantity] IN
         IF ValidateInvariants(m) # NoError
         THEN Outcome(ValidateInvariants(m), m, << >>)
         ELSE Outcome(NoError, m,
                      << InventoryReserved(m.product_id, quantity) >>
                          \o LowStockEvents(m))

\* Variant of Release: the low-stock check of the other mutators is added.
ReleaseWithLowStock(inv, quantity) ==
    IF quantity <= 0 THEN Outcome(InvalidQuantityError, inv, << >>)
    ELSE IF quantity > inv.reserved_quantity
         THEN Outcome(InvalidQuantityError, inv, << >>)
    ELSE LET m == [inv EXCEPT !.reserved_quantity = @ - quantity] IN
         Outcome(NoError, m,
                 << InventoryReleased(m.product_id, quantity) >> \o LowStockEvents(m))

\* Variant of Release: the whole reservation cannot be released at once.
ReleaseNotAll(inv, quantity) ==
    IF quantity <= 0 THEN Outcome(InvalidQuantityError, inv, << >>)
    ELSE IF quantity >= inv.reserved_quantity
         THEN Outcome(InvalidQuantityError, inv, << >>)
    ELSE LET m == [inv EXCEPT !.reserved_quantity = @ - quantity] IN
         IF ValidateInvariants(m) # NoError
         THEN Outcome(ValidateInvariants(m), m, << >>)
         ELSE Outcome(NoError, m, << InventoryReleased(m.product_id, quantity) >>)

\* Inventory.release
Release(inv, quantity) ==
    IF quantity <= 0 THEN Outcome(InvalidQuantityError, inv, << >>)
    ELSE IF quantity > inv.reserved_quantity
         THEN Outcome(InvalidQuantityError, inv, << >>)
    ELSE LET m == [inv EXCEPT !.reserved_quantity = @ - quantity] IN
         IF ValidateInvariants(m) # NoError
         THEN Outcome(ValidateInvariants(m), m, << >>)
         ELSE Outcome(NoError, m, << InventoryReleased(m.product_id, quantity) >>)

\* Variant of Adjust: the floor at reserved_quantity is left to the re-validation.
AdjustNoReservedCheck(inv, new_total_quantity) ==
    IF new_total_quantity < 0 THEN Outcome(InvalidQuantityError, inv, << >>)
    ELSE LET old_quantity == inv.total_quantity
             m == [inv EXCEPT !.total_quantity = new_total_quantity] IN
         IF ValidateInvariants(m) # NoError
         THEN Outcome(ValidateInvariants(m), m, << >>)
         ELSE Outcome(NoError, m,
                      << InventoryAdjusted(m.product_id, old_quantity,
                                           new_total_quantity) >>
                          \o LowStockEvents(m))

\* Variant of Adjust: a new total equal to reserved_quantity is refused.
AdjustStrictFloor(inv, new_total_quantity) ==
    IF new_total_quantity < 0 THEN Outcome(InvalidQuantityError, inv, << >>)
    ELSE IF new_total_quantity <= inv.reserved_quantity
         THEN Outcome(InvalidQuantityError, inv, << >>)
    ELSE LET old_quantity == inv.total_quantity
             m == [inv EXCEPT !.total_quantity = new_total_quantity] IN
         Outcome(NoError, m,
                 << InventoryAdjusted(m.product_id, old_quantity,
                                      new_total_quantity) >>
                     \o LowStockEvents(m))

\* Variant of Adjust: LowStockDetected is returned only when the adjustment
\* takes the object from at or above its threshold to below it.
AdjustOnCrossing(inv, new_total_quantity) ==
    IF new_total_quantity < 0 THEN Outcome(InvalidQuantityError, inv, << >>)
    ELSE IF new_total_quantity < inv.reserved_quantity
         THEN Outcome(InvalidQuantityError, inv, << >>)
    ELSE LET old_quantity == inv.total_quantity
             m == [inv EXCEPT !.total_quantity = new_total_quantity] IN
         IF ValidateInvariants(m) # NoError
         THEN Outcome(ValidateInvariants(m), m, << >>)
         ELSE Outcome(NoError, m,
                      << InventoryAdjusted(m.product_id, old_quantity,
                                           new_total_quantity) >>
                          \o IF available_quantity(inv) < inv.minimum_stock_level
                             THEN << >> ELSE LowStockEvents(m))

\* Variant of Adjust: the event carries the two quantities the wrong way round.
AdjustEventSwapped(inv, new_total_quantity) ==
    IF new_total_quantity < 0 THEN Outcome(InvalidQuantityError, inv, << >>)
    ELSE IF new_total_quantity < inv.reserved_quantity
         THEN Outcome(InvalidQuantityError, inv, << >>)
    ELSE LET old_quantity == inv.total_quantity
             m == [inv EXCEPT !.total_quantity = new_total_quantity] IN
         IF ValidateInvariants(m) # NoError
         THEN Outcome(ValidateInvariants(m), m, << >>)
         ELSE Outcome(NoError, m,
                      << InventoryAdjusted(m.product_id, new_total_quantity,
                                           old_quantity) >>
                          \o LowStockEvents(m))

\* Variant of Adjust: an adjustment to the current total returns no event.
AdjustSkipsUnchanged(inv, new_total_quantity) ==
    IF new_total_quantity < 0 THEN Outcome(InvalidQuantityError, inv, << >>)
    ELSE IF new_total_quantity < inv.reserved_quantity
         THEN Outcome(InvalidQuantityError, inv, << >>)
    ELSE IF new_total_quantity = inv.total_quantity
         THEN Outcome(NoError, inv, << >>)
    ELSE LET old_quantity == inv.total_quantity
             m == [inv EXCEPT !.total_quantity = new_total_quantity] IN
         IF ValidateInvariants(m) # NoError
         THEN Outcome(ValidateInvariants(m), m, << >>)
         ELSE Outcome(NoError, m,
                      << InventoryAdjusted(m.product_id, old_quantity,
                                           new_total_quantity) >>
                          \o LowStockEvents(m))

\* Inventory.adjust (reason and adjusted_by are not read by the method)
Adjust(inv, new_total_quantity) ==
    IF new_total_quantity < 0 THEN Outcome(InvalidQuantityError, inv, << >>)
    ELSE IF new_total_quantity < inv.reserved_quantity
         THEN Outcome(InvalidQuantityError, inv, << >>)
    ELSE LET old_quantity == inv.total_quantity
             m == [inv EXCEPT !.total_quantity = new_total_quantity] IN
         IF ValidateInvariants(m) # NoError
         THEN Outcome(ValidateInvariants(m), m, << >>)
         ELSE Outcome(NoError, m,
                      << InventoryAdjusted(m.product_id, old_quantity,
                                           new_total_quantity) >>
                          \o LowStockEvents(m))

\* One dispatch for the three mutators, as the service and the tests call them.
Mutate(op, inv, arg) ==
    CASE op = "reserve" -> Reserve(inv, arg)
      [] op = "release" -> Release(inv, arg)
      [] op = "adjust"  -> Adjust(inv, arg)


\* ------------------------------------------------------ the stored table
Row(total, reserved, minimum) ==
    [total_quantity |-> total, reserved_quantity |-> reserved,
     minimum_stock_level |-> minimum]

NoRow == Row(-1, -1, -1)

\* InventoryModel.from_domain / the three assignments of save
FromDomain(inv) ==
    Row(inv.total_quantity, inv.reserved_quantity, inv.minimum_stock_level)

\* InventoryModel.to_domain: builds an Inventory, so __post_init__ validates.
ToDomain(pid, row) ==
    Construct(pid, row.total_quantity, row.reserved_quantity,
              row.minimum_stock_level)

\* ------------------------------------------------------ StockLevelMonitor
\* Variant of StockLevelMonitorApply: the event's type is not looked at.
ApplyToAnyEvent(event, inventory) ==
    IF available_quantity(inventory) < inventory.minimum_stock_level
    THEN << LowStockDetected(inventory.product_id, available_quantity(inventory),
                             inventory.minimum_stock_level) >>
    ELSE << >>

\* Variant of StockLevelMonitorApply: the threshold itself counts as low.
ApplyAtOrBelow(event, inventory) ==
    IF event.type \notin { "InventoryReserved", "InventoryAdjusted" } THEN << >>
    ELSE IF available_quantity(inventory) <= inventory.minimum_stock_level
    THEN << LowStockDetected(inventory.product_id, available_quantity(inventory),
                             inventory.minimum_stock_level) >>
    ELSE << >>

\* StockLevelMonitor.apply(event, inventory): the list it returns.
StockLevelMonitorApply(event, inventory) ==
    IF event.type \notin { "InventoryReserved", "InventoryAdjusted" } THEN << >>
    ELSE IF available_quantity(inventory) < inventory.minimum_stock_level
    THEN << LowStockDetected(inventory.product_id, available_quantity(inventory),
                             inventory.minimum_stock_level) >>
    ELSE << >>

\* ------------------------------------------------------------------ state
VARIABLES
    agg,     \* SpecAgg: the aggregate object under test (NoAgg before one exists)
    last,    \* SpecAgg: the last call made on it: op, args, object before, outcome
    log,     \* the events collected from the calls so far, when they are collected
    table,   \* SpecRepo: the rows of the inventory table of one session
    reply,   \* SpecRepo: the last repository or query call and what it returned
    db,      \* Spec: the inventory table, product_id -> row (NoRow when absent)
    db0,     \* Spec: the table as stored before the first request (never changes)
    rowLock, \* Spec: product_id -> the request holding its row lock (NoThread)
    req      \* Spec: each request's position and local data

vars == << agg, last, log, table, reply, db, db0, rowLock, req >>
aggVars == << agg, last, log >>
repoVars == << table, reply >>
svcVars == << db, db0, rowLock, req >>

\* No repository call made yet.
NoReply == [op |-> "none", args |-> << >>, before |-> { }, result |-> { },
            err |-> NoError]

\* --------------------------------------------- SpecAgg: calls on one object
Mutators == { "reserve", "release", "adjust" }

NoCall == [op |-> "none", args |-> << >>, pre |-> NoAgg,
           err |-> NoError, events |-> << >>]

\* The list a caller or a publisher shared by the calls keeps of the events
\* handed to it, in their order: published_events of LocalEventPublisher.
\* NoLog when nothing keeps them.
NoLog == [shared |-> FALSE, events |-> << >>]
EmptyLog == [shared |-> TRUE, events |-> << >>]
Collect(l, events) == IF l.shared THEN [l EXCEPT !.events = @ \o events] ELSE l
LogOpen == ~log.shared \/ Len(log.events) < MaxLog

CallRecord(op, args, pre, out) ==
    [op |-> op, args |-> args, pre |-> pre, err |-> out.err, events |-> out.events]

\* Inventory(product_id=..., total_quantity=..., ...) as the tests build one.
AggConstruct(pid, total, reserved, minimum) ==
    /\ last = NoCall
    /\ LET out == Construct(pid, total, reserved, minimum) IN
       /\ agg' = out.inv
       /\ last' = CallRecord("construct", << pid, total, reserved, minimum >>, agg, out)
    /\ log' = log
    /\ UNCHANGED << svcVars, repoVars >>

\* Inventory.create(product_id, initial_quantity, minimum_stock_level)
AggCreate(pid, initial, minimum) ==
    /\ last = NoCall
    /\ LET out == Create(pid, initial, minimum) IN
       /\ agg' = out.inv
       /\ last' = CallRecord("create", << pid, initial, minimum >>, agg, out)
       /\ log' = Collect(log, out.events)
    /\ UNCHANGED << svcVars, repoVars >>

\* inventory.reserve(q) / inventory.release(q) / inventory.adjust(x, ..)
AggMutate(op, arg) ==
    /\ agg # NoAgg
    /\ LogOpen
    /\ LET out == Mutate(op, agg, arg) IN
       /\ agg' = out.inv
       /\ last' = CallRecord(op, << arg >>, agg, out)
       /\ log' = Collect(log, out.events)
    /\ UNCHANGED << svcVars, repoVars >>

AggReserve(q) == AggMutate("reserve", q)
AggRelease(q) == AggMutate("release", q)
AggAdjust(x) == AggMutate("adjust", x)

QtyInputs == -1 .. MaxQty + 1
MinInputs == -1 .. MaxMin

\* model.to_domain() on a row read from the table.  The columns are plain
\* Integers without CHECK constraints, so a row can hold any integers.
AggFromRow(pid, row) ==
    /\ last = NoCall
    /\ LET out == ToDomain(pid, row) IN
       /\ agg' = out.inv
       /\ last' = CallRecord("to_domain",
                             << pid, row.total_quantity, row.reserved_quantity,
                                row.minimum_stock_level >>, agg, out)
    /\ log' = log
    /\ UNCHANGED << svcVars, repoVars >>

\* One event of every type.
EventInputs ==
    { InventoryCreated(<<"A">>, 1, 0), InventoryReserved(<<"A">>, 1),
      InventoryReleased(<<"A">>, 1), InventoryAdjusted(<<"A">>, 1, 0),
      LowStockDetected(<<"A">>, 0, 1) }

\* StockLevelMonitor().apply(event, inventory) on the object as it is now.
\* apply assigns to nothing, so the object stays as it is.
AggApply(event) ==
    /\ agg # NoAgg
    /\ agg' = agg
    /\ last' = [op |-> "apply", args |-> << event >>, pre |-> agg, err |-> NoError,
                events |-> StockLevelMonitorApply(event, agg)]
    /\ log' = log
    /\ UNCHANGED << svcVars, repoVars >>

\* StockLevelMonitor().apply(events[0], inventory) right after a successful
\* call returned events: the policy run on the call's primary event and the
\* object the call left.
AggApplyPrimary ==
    /\ last.op \in { "create" } \cup Mutators
    /\ last.err = NoError
    /\ AggApply(last.events[1])

AggNext ==
    \/ \E pid \in Products, t \in QtyInputs, r \in QtyInputs, m \in MinInputs :
          AggConstruct(pid, t, r, m)
    \/ \E pid \in Products, t \in QtyInputs, r \in QtyInputs, m \in MinInputs :
          AggFromRow(pid, Row(t, r, m))
    \/ \E pid \in RawIds, i \in QtyInputs, m \in MinInputs : AggCreate(pid, i, m)
    \/ \E q \in QtyInputs : AggReserve(q)
    \/ \E q \in QtyInputs : AggRelease(q)
    \/ \E x \in QtyInputs : AggAdjust(x)
    \/ \E e \in EventInputs : AggApply(e)
    \/ AggApplyPrimary


\* ------------------------------------------------------ the seeded table
\* Rows stored before the requests start, each by repository.save of a
\* constructed (hence valid) Inventory, as the tests' arrange steps do: a
\* total of MaxSeed with every reservation level, with and without a threshold.
SeedRows == { Row(MaxSeed, r, m) : r \in 0 .. MaxSeed, m \in 0 .. 1 }

\* ------------------------------------------------------------- requests
\* A request is one thread of the worker pool running one service method with
\* its own Session (get_db) and its own LocalEventPublisher.
Threads == { "t1", "t2" }
NoThread == "none"

\* Quantities a request carries.
SvcArgs == 0 .. MaxSeed

\* The order_id a reserve or release request carries.  The service methods
\* pass it to logger.info and to nothing else; adjust_inventory has none.
OrderIds == { "ORD-1", "ORD-2" }
NoOrder == "none"
SameOrder == "ORD-1"

NewReq ==
    [pc |-> "idle", op |-> "none", product_id |-> <<>>, arg |-> 0,
     inv |-> NoAgg, events |-> << >>, existing |-> NoRow, saved |-> FALSE,
     committed |-> FALSE, published |-> << >>, err |-> NoError,
     after |-> { }, order_id |-> NoOrder, status |-> 0, body |-> NoAgg,
     raw |-> << >>]

\* The engine is SQLite (session.py).  SQLAlchemy's SQLite compiler renders
\* no FOR UPDATE clause, and the sqlite3 driver opens no transaction for a
\* SELECT, so query.with_for_update().first() reads the row and holds nothing
\* afterwards.  On an engine with row locks the fetch would wait for and take
\* the row's lock until the session's transaction ends.
Dialect == "sqlite"
ForUpdateLocks == Dialect # "sqlite"

\* The service's statement order after the aggregate call: an exception
\* leaves the method, a return goes on to repository.save.
AfterCallSkipSave(err) == IF err # NoError THEN "done" ELSE "publish"
AfterCallSwallow(err) == "save"
AfterCallRetry(err) == IF err # NoError THEN "call" ELSE "save"
AfterCall(err) == IF err # NoError THEN "done" ELSE "save"

Unlock(t) == [p \in Products |-> IF rowLock[p] = t THEN NoThread ELSE rowLock[p]]

\* repository.get(product_id, for_update=True) at the head of a service
\* method, then the not-found check.
\* Variant of LockedFetch: a product without a row is taken to have an empty
\* stock, and the request goes on to the aggregate.
LockedFetchOrEmpty(t, op, pid, arg, order_id) ==
    /\ req[t].pc = "idle"
    /\ ForUpdateLocks => rowLock[pid] = NoThread
    /\ LET got == IF db[pid] = NoRow THEN Construct(pid, 0, 0, 0)
                  ELSE ToDomain(pid, db[pid]) IN
       /\ req' = [req EXCEPT ![t] =
                     [NewReq EXCEPT
                         !.pc = IF got.err # NoError THEN "done" ELSE "call",
                         !.op = op, !.product_id = pid, !.arg = arg,
                         !.inv = got.inv, !.err = got.err,
                         !.order_id = order_id]]
       /\ rowLock' = IF ForUpdateLocks /\ got.err = NoError
                     THEN [rowLock EXCEPT ![pid] = t] ELSE rowLock
    /\ UNCHANGED << db, db0, aggVars, repoVars >>

\* The requests that have returned to their callers.
Returned == { u \in Threads : req[u].pc = "done" }

\* Variant of LockedFetch: a request whose order_id was already served for
\* the same method and product returns the stored aggregate and does nothing.
LockedFetchDedup(t, op, pid, arg, order_id) ==
    /\ req[t].pc = "idle"
    /\ ForUpdateLocks => rowLock[pid] = NoThread
    /\ LET served == \E u \in Returned :
                         /\ req[u].committed
                         /\ req[u].op = op
                         /\ req[u].product_id = pid
                         /\ order_id # NoOrder
                         /\ req[u].order_id = order_id
           got == IF db[pid] = NoRow
                  THEN Outcome(InventoryNotFoundError, NoAgg, << >>)
                  ELSE ToDomain(pid, db[pid]) IN
       /\ req' = [req EXCEPT ![t] =
                     [NewReq EXCEPT
                         !.pc = IF got.err # NoError \/ served
                                THEN "done" ELSE "call",
                         !.op = op, !.product_id = pid, !.arg = arg,
                         !.inv = got.inv, !.err = got.err,
                         !.after = Returned, !.order_id = order_id]]
       /\ rowLock' = IF ForUpdateLocks /\ got.err = NoError /\ ~served
                     THEN [rowLock EXCEPT ![pid] = t] ELSE rowLock
    /\ UNCHANGED << db, db0, aggVars, repoVars >>

\* Variant of LockedFetch: the fetch waits while a request on any product is
\* between its fetch and its commit, as under a lock on the whole table.
LockedFetchTableLock(t, op, pid, arg, order_id) ==
    /\ req[t].pc = "idle"
    /\ \A u \in Threads : req[u].pc \notin { "call", "save", "commit" }
    /\ IF db[pid] = NoRow
       THEN /\ req' = [req EXCEPT ![t] =
                          [NewReq EXCEPT !.pc = "done", !.op = op,
                                         !.product_id = pid, !.arg = arg,
                                         !.err = InventoryNotFoundError,
                                         !.after = Returned,
                                         !.order_id = order_id]]
            /\ UNCHANGED rowLock
       ELSE LET got == ToDomain(pid, db[pid]) IN
            /\ req' = [req EXCEPT ![t] =
                          [NewReq EXCEPT
                              !.pc = IF got.err # NoError THEN "done" ELSE "call",
                              !.op = op, !.product_id = pid, !.arg = arg,
                              !.inv = got.inv, !.err = got.err,
                              !.after = Returned, !.order_id = order_id]]
            /\ rowLock' = IF ForUpdateLocks /\ got.err = NoError
                          THEN [rowLock EXCEPT ![pid] = t] ELSE rowLock
    /\ UNCHANGED << db, db0, aggVars, repoVars >>

LockedFetch(t, op, pid, arg, order_id) ==
    /\ req[t].pc = "idle"
    /\ ForUpdateLocks => rowLock[pid] = NoThread
    /\ IF db[pid] = NoRow
       THEN /\ req' = [req EXCEPT ![t] =
                          [NewReq EXCEPT !.pc = "done", !.op = op,
                                         !.product_id = pid, !.arg = arg,
                                         !.err = InventoryNotFoundError,
                                         !.after = Returned,
                                         !.order_id = order_id]]
            /\ UNCHANGED rowLock
       ELSE LET got == ToDomain(pid, db[pid]) IN
            /\ req' = [req EXCEPT ![t] =
                          [NewReq EXCEPT
                              !.pc = IF got.err # NoError THEN "done" ELSE "call",
                              !.op = op, !.product_id = pid, !.arg = arg,
                              !.inv = got.inv, !.err = got.err,
                              !.after = Returned, !.order_id = order_id]]
            /\ rowLock' = IF ForUpdateLocks /\ got.err = NoError
                          THEN [rowLock EXCEPT ![pid] = t] ELSE rowLock
    /\ UNCHANGED << db, db0, aggVars, repoVars >>

reserve_inventory(t, pid, quantity, order_id) ==
    LockedFetch(t, "reserve", pid, quantity, order_id)
release_inventory(t, pid, quantity, order_id) ==
    LockedFetch(t, "release", pid, quantity, order_id)
adjust_inventory(t, pid, new_quantity) ==
    LockedFetch(t, "adjust", pid, new_quantity, NoOrder)

\* events = inventory.reserve(..) / release(..) / adjust(..)
DomainCall(t) ==
    /\ req[t].pc = "call"
    /\ LET out == Mutate(req[t].op, req[t].inv, req[t].arg) IN
       /\ req' = [req EXCEPT ![t].pc = AfterCall(out.err), ![t].inv = out.inv,
                             ![t].events = out.events, ![t].err = out.err]
       /\ rowLock' = IF AfterCall(out.err) = "done" THEN Unlock(t) ELSE rowLock
    /\ UNCHANGED << db, db0, aggVars, repoVars >>

\* repository.save, first statement: the SELECT by product_id.  The row
\* object loaded by get is no longer referenced, so the session loads it anew.
SaveQuery(t) ==
    /\ req[t].pc = "save"
    /\ req' = [req EXCEPT ![t].pc = "commit", ![t].existing = db[req[t].product_id],
                          ![t].saved = TRUE]
    /\ UNCHANGED << db, db0, rowLock, aggVars, repoVars >>

\* The row an UPDATE of the attributes that differ from the loaded ones leaves.
UpdateChanged(current, loaded, new) ==
    [c \in DOMAIN current |-> IF new[c] # loaded[c] THEN new[c] ELSE current[c]]

\* repository.save, the assignments and db.commit(): the flush writes the
\* attributes whose value differs from the loaded one (or inserts the new
\* row), and the commit ends the transaction.  An UPDATE that matches no row
\* any more, or an INSERT of a product_id stored meanwhile, makes the flush
\* raise: nothing is written and the exception leaves the service method.
SaveCommit(t) ==
    /\ req[t].pc = "commit"
    /\ LET pid == req[t].product_id
           new == FromDomain(req[t].inv)
           failure == IF req[t].existing # NoRow /\ db[pid] = NoRow
                          THEN StaleDataError
                      ELSE IF req[t].existing = NoRow /\ db[pid] # NoRow
                          THEN IntegrityError
                      ELSE NoError IN
       IF failure # NoError
       THEN /\ req' = [req EXCEPT ![t].pc = "done", ![t].err = failure]
            /\ UNCHANGED db
       ELSE /\ db' = [db EXCEPT ![pid] =
                         IF req[t].existing = NoRow THEN new
                         ELSE UpdateChanged(db[pid], req[t].existing, new)]
            /\ req' = [req EXCEPT ![t].pc = "publish", ![t].committed = TRUE]
    /\ rowLock' = Unlock(t)
    /\ UNCHANGED << db0, aggVars, repoVars >>

\* for event in events: self.event_publisher.publish(event)
Publish(t) ==
    /\ req[t].pc = "publish"
    /\ req[t].events # << >>
    /\ req' = [req EXCEPT ![t].events = Tail(req[t].events),
                          ![t].published = Append(req[t].published,
                                                  Head(req[t].events))]
    /\ log' = Collect(log, << Head(req[t].events) >>)
    /\ UNCHANGED << db, db0, rowLock, agg, last, repoVars >>

\* The exception an EventPublisher implementation raises out of publish.
PublisherError == "PublisherFailure"

\* Variant of PublishFails: the failure undoes the save of the request.
PublishFailsRollsBack(t) ==
    /\ req[t].pc = "publish"
    /\ req[t].events # << >>
    /\ req' = [req EXCEPT ![t].pc = "done", ![t].err = PublisherError]
    /\ db' = [db EXCEPT ![req[t].product_id] = req[t].existing]
    /\ UNCHANGED << db0, rowLock, aggVars, repoVars >>

\* self.event_publisher.publish(event) raises: the exception leaves the loop
\* and the service method.  save has committed before, and the method has no
\* handler, so nothing else runs.
PublishFails(t) ==
    /\ req[t].pc = "publish"
    /\ req[t].events # << >>
    /\ req' = [req EXCEPT ![t].pc = "done", ![t].err = PublisherError]
    /\ UNCHANGED << db, db0, rowLock, aggVars, repoVars >>

\* return inventory
Return(t) ==
    /\ req[t].pc = "publish"
    /\ req[t].events = << >>
    /\ req' = [req EXCEPT ![t].pc = "done"]
    /\ UNCHANGED << db, db0, rowLock, aggVars, repoVars >>

Init ==
    /\ agg = NoAgg
    /\ log = NoLog
    /\ last = NoCall
    /\ table = { }
    /\ reply = NoReply
    /\ db \in [Products -> SeedRows \cup { NoRow }]
    /\ db0 = db
    /\ rowLock = [p \in Products |-> NoThread]
    /\ req = [t \in Threads |-> NewReq]

Next ==
    \/ \E t \in Threads, pid \in Products, q \in SvcArgs :
          reserve_inventory(t, pid, q, SameOrder)
    \/ \E t \in Threads, pid \in Products, q \in SvcArgs :
          release_inventory(t, pid, q, SameOrder)
    \/ \E t \in Threads, pid \in Products, x \in SvcArgs : adjust_inventory(t, pid, x)
    \/ \E t \in Threads : DomainCall(t)
    \/ \E t \in Threads : SaveQuery(t)
    \/ \E t \in Threads : SaveCommit(t)
    \/ \E t \in Threads : Publish(t)
    \/ \E t \in Threads : Return(t)

Spec == Init /\ [][Next]_vars

\* ------------------------------------------------- calls one after another
\* One client calling the service methods one after the other, as the
\* workflow tests do: a call starts when no other call is running.  The
\* order ids vary, and the injected publisher can raise.
NoneRunning == \A u \in Threads : req[u].pc \in { "idle", "done" }

\* The client's table: product A with any seeded row or none, product B
\* never stored.
CallsInit ==
    /\ agg = NoAgg
    /\ log = NoLog
    /\ last = NoCall
    /\ table = { }
    /\ reply = NoReply
    /\ db \in { f \in [Products -> SeedRows \cup { NoRow }] : f[<<"B">>] = NoRow }
    /\ db0 = db
    /\ rowLock = [p \in Products |-> NoThread]
    /\ req = [t \in Threads |-> NewReq]

CallsNext ==
    \/ \E t \in Threads, pid \in Products, q \in SvcArgs, o \in OrderIds :
          NoneRunning /\ reserve_inventory(t, pid, q, o)
    \/ \E t \in Threads, pid \in Products, q \in SvcArgs, o \in OrderIds :
          NoneRunning /\ release_inventory(t, pid, q, o)
    \/ \E t \in Threads, pid \in Products, x \in SvcArgs :
          NoneRunning /\ adjust_inventory(t, pid, x)
    \/ \E t \in Threads : DomainCall(t)
    \/ \E t \in Threads : SaveQuery(t)
    \/ \E t \in Threads : SaveCommit(t)
    \/ \E t \in Threads : Publish(t)
    \/ \E t \in Threads : PublishFails(t)
    \/ \E t \in Threads : Return(t)

SpecCalls == CallsInit /\ [][CallsNext]_vars

\* Requests running at the same time on one InventoryService, whose one
\* publisher keeps every event in the order of the publish calls.
SharedInit ==
    /\ agg = NoAgg
    /\ log = EmptyLog
    /\ last = NoCall
    /\ table = { }
    /\ reply = NoReply
    /\ db \in [Products -> SeedRows \cup { NoRow }]
    /\ db[<< "B" >>] = NoRow
    /\ db0 = db
    /\ rowLock = [p \in Products |-> NoThread]
    /\ req = [t \in Threads |-> NewReq]

SpecShared == SharedInit /\ [][Next]_vars

\* Requests running at the same time on the worker pool, each of them going
\* on until its service method ends: a thread that can take its next step
\* takes it.  The publisher may fail.
RequestStep(t) ==
    \/ DomainCall(t)
    \/ SaveQuery(t)
    \/ SaveCommit(t)
    \/ Publish(t)
    \/ PublishFails(t)
    \/ Return(t)

FairNext ==
    \/ \E t \in Threads, pid \in Products, q \in SvcArgs :
          reserve_inventory(t, pid, q, SameOrder)
    \/ \E t \in Threads, pid \in Products, q \in SvcArgs :
          release_inventory(t, pid, q, SameOrder)
    \/ \E t \in Threads, pid \in Products, x \in SvcArgs : adjust_inventory(t, pid, x)
    \/ \E t \in Threads : RequestStep(t)

SpecFair ==
    /\ CallsInit
    /\ [][FairNext]_vars
    /\ \A t \in Threads : WF_vars(RequestStep(t))

AggInit ==
    /\ agg = NoAgg
    /\ log = NoLog
    /\ last = NoCall
    /\ table = { }
    /\ reply = NoReply
    /\ db = [p \in Products |-> NoRow]
    /\ db0 = db
    /\ rowLock = [p \in Products |-> NoThread]
    /\ req = [t \in Threads |-> NewReq]

SpecAgg == AggInit /\ [][AggNext]_vars

\* One object created and then called again and again by a caller that
\* keeps every event returned.
LogInit ==
    /\ agg = NoAgg
    /\ last = NoCall
    /\ log = EmptyLog
    /\ table = { }
    /\ reply = NoReply
    /\ db = [p \in Products |-> NoRow]
    /\ db0 = db
    /\ rowLock = [p \in Products |-> NoThread]
    /\ req = [t \in Threads |-> NewReq]

LogIds == { << >>, << " ", "A", " " >> }
LogQtys == -1 .. MaxSeed
LogMins == 0 .. 1

LogNext ==
    \/ \E pid \in LogIds, i \in LogQtys, m \in LogMins : AggCreate(pid, i, m)
    \/ \E q \in LogQtys : AggReserve(q)
    \/ \E q \in LogQtys : AggRelease(q)
    \/ \E x \in LogQtys : AggAdjust(x)

SpecLog == LogInit /\ [][LogNext]_vars

\* ------------------------------------------- SpecRepo: one session's calls
\* One InventoryRepository over one Session, its methods called one after the
\* other as the integration tests do.  The table is the set of its rows; a
\* row carries the four columns the aggregate is mapped to.
InventoryModel(pid, total, reserved, minimum) ==
    [product_id |-> pid, total_quantity |-> total,
     reserved_quantity |-> reserved, minimum_stock_level |-> minimum]

\* What .first() returns when the query selects nothing.
NoModel == InventoryModel(<<>>, -1, -1, -1)

\* InventoryModel.from_domain
ModelFromDomain(inventory) ==
    InventoryModel(inventory.product_id, inventory.total_quantity,
                   inventory.reserved_quantity, inventory.minimum_stock_level)

\* InventoryModel.to_domain
ModelToDomain(model) ==
    Construct(model.product_id, model.total_quantity, model.reserved_quantity,
              model.minimum_stock_level)

\* db.query(InventoryModel).filter_by(product_id=...)
QueryByProduct(rows, pid) == { m \in rows : m.product_id = pid }

\* query.first()
First(rows) == IF rows = { } THEN NoModel ELSE CHOOSE m \in rows : TRUE

\* Variant of Insert: the table has no key, every INSERT is accepted.
InsertNoKey(rows, model) ==
    [err |-> NoError, table |-> rows \cup { model }]

\* db.add(model) followed by the flush of commit: product_id is the primary
\* key, so the INSERT of a second row for a product_id is refused.
Insert(rows, model) ==
    IF QueryByProduct(rows, model.product_id) # { }
    THEN [err |-> IntegrityError, table |-> rows]
    ELSE [err |-> NoError, table |-> rows \cup { model }]

\* Variant of RepositoryGet: a missing product raises whatever for_update is.
RepositoryGetRaising(rows, pid, for_update) ==
    LET model == First(QueryByProduct(rows, pid)) IN
    IF model = NoModel
    THEN [err |-> InventoryNotFoundError, result |-> { }]
    ELSE LET got == ModelToDomain(model) IN
         [err |-> got.err,
          result |-> IF got.err = NoError THEN { got.inv } ELSE { }]

\* InventoryRepository.get: result is { } for None, else the one aggregate.
RepositoryGet(rows, pid, for_update) ==
    LET model == First(QueryByProduct(rows, pid)) IN
    IF model = NoModel
    THEN IF for_update
         THEN [err |-> InventoryNotFoundError, result |-> { }]
         ELSE [err |-> NoError, result |-> { }]
    ELSE LET got == ModelToDomain(model) IN
         [err |-> got.err,
          result |-> IF got.err = NoError THEN { got.inv } ELSE { }]

\* Variant of RepositorySave: an existing row keeps its minimum_stock_level.
RepositorySaveTwoColumns(rows, inventory) ==
    LET existing == First(QueryByProduct(rows, inventory.product_id)) IN
    IF existing # NoModel
    THEN [err |-> NoError,
          table |-> (rows \ { existing }) \cup
                    { [existing EXCEPT
                          !.total_quantity = inventory.total_quantity,
                          !.reserved_quantity = inventory.reserved_quantity] }]
    ELSE Insert(rows, ModelFromDomain(inventory))

\* InventoryRepository.save, with no other session at work in between.
RepositorySave(rows, inventory) ==
    LET existing == First(QueryByProduct(rows, inventory.product_id)) IN
    IF existing # NoModel
    THEN [err |-> NoError,
          table |-> (rows \ { existing }) \cup
                    { [existing EXCEPT
                          !.total_quantity = inventory.total_quantity,
                          !.reserved_quantity = inventory.reserved_quantity,
                          !.minimum_stock_level = inventory.minimum_stock_level] }]
    ELSE Insert(rows, ModelFromDomain(inventory))

\* Variant of FindLowStock: a product at its threshold is selected too.
FindLowStockAtOrBelow(rows) ==
    LET models == { m \in rows : (m.total_quantity - m.reserved_quantity)
                                    <= m.minimum_stock_level } IN
    IF \E m \in models : ModelToDomain(m).err # NoError
    THEN [err |-> InvalidQuantityError, result |-> { }]
    ELSE [err |-> NoError, result |-> { ModelToDomain(m).inv : m \in models }]

\* InventoryRepository.find_low_stock: the aggregates it returns (the order
\* of an unordered SELECT is not fixed, so they are kept as a set).
FindLowStock(rows) ==
    LET models == { m \in rows : (m.total_quantity - m.reserved_quantity)
                                    < m.minimum_stock_level } IN
    IF \E m \in models : ModelToDomain(m).err # NoError
    THEN [err |-> InvalidQuantityError, result |-> { }]
    ELSE [err |-> NoError, result |-> { ModelToDomain(m).inv : m \in models }]

\* InventoryService.get_inventory
GetInventory(rows, pid) ==
    LET got == RepositoryGet(rows, pid, FALSE) IN
    IF got.err = NoError /\ got.result = { }
    THEN [err |-> InventoryNotFoundError, result |-> { }]
    ELSE got

\* The rows a query sees: those saved through this session, and in a run of
\* requests the rows of the database they work on.
Stored ==
    table \cup { InventoryModel(pid, db[pid].total_quantity,
                                db[pid].reserved_quantity,
                                db[pid].minimum_stock_level) :
                     pid \in { p \in Products : db[p] # NoRow } }

Reply(op, args, got) ==
    [op |-> op, args |-> args, before |-> Stored, result |-> got.result,
     err |-> got.err]

\* repository.save(inventory)
RepoSave(inventory) ==
    /\ LET saved == RepositorySave(table, inventory) IN
       /\ table' = saved.table
       /\ reply' = Reply("save", << inventory >>,
                         [result |-> { }, err |-> saved.err])
    /\ UNCHANGED << aggVars, svcVars >>

\* repository.get(product_id, for_update): a query, nothing is written.
RepoGet(pid, for_update) ==
    /\ reply' = Reply("get", << pid, for_update >>,
                      RepositoryGet(table, pid, for_update))
    /\ table' = table
    /\ UNCHANGED << aggVars, svcVars >>

\* service.get_inventory(product_id)
get_inventory(pid) ==
    /\ reply' = Reply("get_inventory", << pid >>, GetInventory(table, pid))
    /\ table' = table
    /\ UNCHANGED << aggVars, svcVars >>

\* service.get_low_stock_items(), which is repository.find_low_stock()
get_low_stock_items ==
    /\ reply' = Reply("get_low_stock_items", << >>, FindLowStock(Stored))
    /\ table' = table
    /\ UNCHANGED << aggVars, svcVars >>

\* The aggregates a caller saves: every valid one with a total up to MaxSeed,
\* with and without a threshold.
SaveInputs ==
    { inv \in [product_id : Products, total_quantity : 0 .. MaxSeed,
               reserved_quantity : 0 .. MaxSeed, minimum_stock_level : 0 .. 1] :
          ValidateInvariants(inv) = NoError }

RepoNext ==
    \/ \E inventory \in SaveInputs : RepoSave(inventory)
    \/ \E pid \in Products, for_update \in BOOLEAN : RepoGet(pid, for_update)
    \/ \E pid \in Products : get_inventory(pid)
    \/ get_low_stock_items

\* The schema just created by init_db: no rows.
RepoInit ==
    /\ agg = NoAgg
    /\ log = NoLog
    /\ last = NoCall
    /\ table = { }
    /\ reply = NoReply
    /\ db = [p \in Products |-> NoRow]
    /\ db0 = db
    /\ rowLock = [p \in Products |-> NoThread]
    /\ req = [t \in Threads |-> NewReq]

SpecRepo == RepoInit /\ [][RepoNext]_vars

\* ------------------------------------------------------------- creation
\* repository.create(inventory): the strict insert.  The INSERT of a
\* product_id that has a row is refused by the table's primary key, and the
\* caller gets AlreadyExists; nothing is written then.
RepositoryCreate(rows, inventory) ==
    LET done == Insert(rows, ModelFromDomain(inventory)) IN
    IF done.err = IntegrityError
    THEN [err |-> InventoryAlreadyExistsError, table |-> rows]
    ELSE done

\* Arguments of create_inventory.
CreateQtys == -1 .. MaxSeed
CreateMins == -1 .. 1

\* service.create_inventory(product_id, initial_quantity, minimum_stock_level),
\* first step: Inventory.create validates and builds the aggregate and its
\* events.  No row is fetched or locked.
create_inventory(t, pid, initial, minimum) ==
    /\ req[t].pc = "idle"
    /\ LET out == Create(pid, initial, minimum) IN
       req' = [req EXCEPT ![t] =
                  [NewReq EXCEPT
                      !.pc = IF out.err # NoError THEN "done" ELSE "persist",
                      !.op = "create", !.product_id = Strip(pid),
                      !.arg = initial, !.raw = << pid, initial, minimum >>,
                      !.inv = out.inv, !.events = out.events, !.err = out.err,
                      !.after = Returned]]
    /\ UNCHANGED << db, db0, rowLock, aggVars, repoVars >>

\* create_inventory, second step: repository.create(inventory), which commits
\* the new row or raises AlreadyExists out of the method.
CreatePersist(t) ==
    /\ req[t].pc = "persist"
    /\ LET done == RepositoryCreate(Stored, req[t].inv) IN
       IF done.err # NoError
       THEN /\ req' = [req EXCEPT ![t].pc = "done", ![t].saved = TRUE,
                                  ![t].err = done.err]
            /\ UNCHANGED db
       ELSE /\ db' = [db EXCEPT ![req[t].product_id] = FromDomain(req[t].inv)]
            /\ req' = [req EXCEPT ![t].pc = "publish_many", ![t].saved = TRUE,
                                  ![t].committed = TRUE]
    /\ UNCHANGED << db0, rowLock, aggVars, repoVars >>

\* create_inventory, last step: event_publisher.publish_many(events), which
\* publishes the events in their order, and the return of the aggregate.
PublishMany(t) ==
    /\ req[t].pc = "publish_many"
    /\ req' = [req EXCEPT ![t].pc = "done", ![t].events = << >>,
                          ![t].published = req[t].published \o req[t].events]
    /\ UNCHANGED << db, db0, rowLock, aggVars, repoVars >>

\* Requests that create products, over a table where product A may be stored.
CreateNext ==
    \/ \E t \in Threads, pid \in RawIds, i \in CreateQtys, m \in CreateMins :
          create_inventory(t, pid, i, m)
    \/ \E t \in Threads : CreatePersist(t)
    \/ \E t \in Threads : PublishMany(t)

SpecCreate == CallsInit /\ [][CreateNext]_vars

\* ------------------------------------------------------ the HTTP routes
\* The except clauses of the three route handlers, in their order; 200 is the
\* status of a handler that returns.
GetStatus(err) ==
    IF err = NoError THEN 200
    ELSE IF err = InventoryNotFoundError THEN 404
    ELSE 500

ReserveStatus(err) ==
    IF err = NoError THEN 200
    ELSE IF err = InventoryNotFoundError THEN 404
    ELSE IF err = InsufficientStockError THEN 409
    ELSE IF err = InvalidQuantityError THEN 422
    ELSE 500

ReleaseStatus(err) ==
    IF err = NoError THEN 200
    ELSE IF err = InventoryNotFoundError THEN 404
    ELSE IF err = InvalidQuantityError THEN 422
    ELSE 500

RouteStatus(op, err) ==
    CASE op = "get" -> GetStatus(err)
      [] op = "reserve" -> ReserveStatus(err)
      [] op = "release" -> ReleaseStatus(err)

\* InventoryResponse(product_id=.., total_quantity=.., ...) of an aggregate
InventoryResponse(inventory) ==
    [product_id |-> inventory.product_id,
     total_quantity |-> inventory.total_quantity,
     reserved_quantity |-> inventory.reserved_quantity,
     available_quantity |-> available_quantity(inventory),
     minimum_stock_level |-> inventory.minimum_stock_level]

\* GET /v1/inventory/{product_id}: service.get_inventory(product_id), one
\* unlocked SELECT and to_domain.  A worker thread that has answered its
\* request is free to serve this one.
get_route(t, pid) ==
    /\ req[t].pc \in { "idle", "responded" }
    /\ LET got == GetInventory(Stored, pid) IN
       req' = [req EXCEPT ![t] =
                  [NewReq EXCEPT
                      !.pc = "done", !.op = "get", !.product_id = pid,
                      !.inv = IF got.result = { } THEN NoAgg
                              ELSE CHOOSE i \in got.result : TRUE,
                      !.err = got.err, !.after = Returned]]
    /\ UNCHANGED << db, db0, rowLock, aggVars, repoVars >>

\* POST /v1/inventory/{product_id}/reserve and /release: the handler runs for
\* a body that passed ReserveInventoryRequest / ReleaseInventoryRequest, whose
\* quantity is declared gt=0.
reserve_route(t, pid, quantity, order_id) ==
    /\ quantity > 0
    /\ reserve_inventory(t, pid, quantity, order_id)

release_route(t, pid, quantity, order_id) ==
    /\ quantity > 0
    /\ release_inventory(t, pid, quantity, order_id)

\* The handler's return or its except clause, once the service method has
\* returned or raised.  adjust_inventory has no route handler.
Respond(t) ==
    /\ req[t].pc = "done"
    /\ req[t].op \in { "get", "reserve", "release" }
    /\ LET code == RouteStatus(req[t].op, req[t].err) IN
       req' = [req EXCEPT ![t].pc = "responded", ![t].status = code,
                          ![t].body = IF code = 200
                                      THEN InventoryResponse(req[t].inv)
                                      ELSE NoAgg]
    /\ UNCHANGED << db, db0, rowLock, aggVars, repoVars >>

\* The requests of the worker pool over one stored product, next to
\* adjust_inventory calls on the same service.
HttpNext ==
    \/ \E t \in Threads, pid \in Products : get_route(t, pid)
    \/ \E t \in Threads, pid \in Products, q \in SvcArgs :
          reserve_route(t, pid, q, SameOrder)
    \/ \E t \in Threads, pid \in Products, q \in SvcArgs :
          release_route(t, pid, q, SameOrder)
    \/ \E t \in Threads, pid \in Products, x \in SvcArgs : adjust_inventory(t, pid, x)
    \/ \E t \in Threads : DomainCall(t)
    \/ \E t \in Threads : SaveQuery(t)
    \/ \E t \in Threads : SaveCommit(t)
    \/ \E t \in Threads : Publish(t)
    \/ \E t \in Threads : Return(t)
    \/ \E t \in Threads : Respond(t)

SpecHttp == CallsInit /\ [][HttpNext]_vars

\* repository.delete(product_id) on a session of its own: the DELETE and the
\* commit.  On an engine with row locks the DELETE waits for the row's lock.
RepositoryDelete(pid) ==
    /\ ForUpdateLocks => rowLock[pid] = NoThread
    /\ db' = [db EXCEPT ![pid] = NoRow]
    /\ UNCHANGED << db0, rowLock, req, aggVars, repoVars >>

\* The service calls and the reads of a product next to its deletion.
DeleteNext ==
    \/ Next
    \/ \E t \in Threads, pid \in Products : req[t].pc = "idle" /\ get_route(t, pid)
    \/ \E pid \in Products : RepositoryDelete(pid)

SpecDelete == CallsInit /\ [][DeleteNext]_vars

\* ------------------------------------ SpecSystem: objects, requests, queries
\* A run either exercises one aggregate object, or serves requests over a
\* seeded database and, once they have returned, answers a low-stock query.
\* No request arrives in a run of the first kind, and no object is exercised
\* in a run of the second.
Absent == [NewReq EXCEPT !.pc = "absent"]

NoObject == [NoCall EXCEPT !.op = "absent"]

AllReturned == \A t \in Threads : req[t].pc = "done"

SystemInit ==
    /\ agg = NoAgg
    /\ log = NoLog
    /\ table = { }
    /\ reply = NoReply
    /\ rowLock = [p \in Products |-> NoThread]
    /\ \/ /\ last = NoCall
          /\ db = [p \in Products |-> NoRow]
          /\ req = [t \in Threads |-> Absent]
       \/ /\ last = NoObject
          /\ db \in [Products -> SeedRows \cup { NoRow }]
          /\ req = [t \in Threads |-> NewReq]
    /\ db0 = db

SystemNext ==
    \/ last # NoObject /\ AggNext
    \/ last = NoObject /\ Next
    \/ AllReturned /\ reply = NoReply /\ get_low_stock_items

SpecSystem == SystemInit /\ [][SystemNext]_vars

\* ------------------------------------------------- claims on the aggregate
HasLowStock(events) ==
    \E i \in 1 .. Len(events) : events[i].type = "LowStockDetected"

LastOk == last.err = NoError
LastArg == last.args[1]

\* C1: between calls the aggregate always satisfies total_quantity >= 0,
\* reserved_quantity >= 0, minimum_stock_level >= 0 and reserved_quantity <=
\* total_quantity, hence 0 <= available_quantity <= total_quantity, whether the
\* calls made on it returned or raised.
C1_InvariantClosure ==
    agg # NoAgg =>
        /\ agg.total_quantity >= 0
        /\ agg.reserved_quantity >= 0
        /\ agg.minimum_stock_level >= 0
        /\ agg.reserved_quantity <= agg.total_quantity
        /\ 0 <= available_quantity(agg)
        /\ available_quantity(agg) <= agg.total_quantity

\* A fully reserved aggregate on which a further reserve has just raised.
C1_Witness ==
    /\ last.op = "reserve"
    /\ last.err = InsufficientStockError
    /\ agg.total_quantity > 0
    /\ agg.reserved_quantity = agg.total_quantity

\* C6: when reserve, release or adjust raises, the three quantities are what
\* they were before the call and no event is returned.
C6_FailedCallLeavesState ==
    (last.op \in Mutators /\ ~LastOk) =>
        /\ agg = last.pre
        /\ last.events = << >>

\* Scenario E: an adjust below the reserved quantity has just raised.
C6_Witness ==
    /\ last.op = "adjust"
    /\ last.err = InvalidQuantityError
    /\ LastArg >= 0
    /\ LastArg < last.pre.reserved_quantity
    /\ agg.reserved_quantity = last.pre.reserved_quantity

\* C7 as stated: after every successful create, reserve, release or adjust the
\* returned events hold a LowStockDetected exactly when the available quantity
\* after the call is strictly below minimum_stock_level.
C7_Original ==
    (last.op \in { "create", "reserve", "release", "adjust" } /\ LastOk) =>
        (HasLowStock(last.events) <=>
            available_quantity(agg) < agg.minimum_stock_level)

\* C7 as amended: that equivalence holds for create, reserve and adjust; a
\* successful release never returns a LowStockDetected, whatever the available
\* quantity after it.
C7_LowStockThreshold ==
    /\ (last.op \in { "create", "reserve", "adjust" } /\ LastOk) =>
          (HasLowStock(last.events) <=>
              available_quantity(agg) < agg.minimum_stock_level)
    /\ (last.op = "release" /\ LastOk) => ~HasLowStock(last.events)

\* A successful reserve that lands exactly on a positive threshold.
C7_Witness ==
    /\ last.op = "reserve"
    /\ LastOk
    /\ agg.minimum_stock_level > 0
    /\ available_quantity(agg) = agg.minimum_stock_level

\* C8: reserve(q) raises InvalidQuantity exactly when q <= 0, otherwise
\* InsufficientStock exactly when q exceeds the available quantity, otherwise
\* reserved_quantity grows by exactly q and the first event returned is
\* InventoryReserved(product_id, q).
C8_Reserve ==
    last.op = "reserve" =>
        /\ (last.err = InvalidQuantityError) <=> (LastArg <= 0)
        /\ (last.err = InsufficientStockError) <=>
               (LastArg > 0 /\ LastArg > available_quantity(last.pre))
        /\ last.err \in { NoError, InvalidQuantityError, InsufficientStockError }
        /\ LastOk =>
               /\ agg.reserved_quantity = last.pre.reserved_quantity + LastArg
               /\ Len(last.events) >= 1
               /\ last.events[1] = InventoryReserved(last.pre.product_id, LastArg)

\* reserve of everything that is available has just succeeded.
C8_Witness ==
    /\ last.op = "reserve"
    /\ LastOk
    /\ LastArg = available_quantity(last.pre)
    /\ available_quantity(agg) = 0

\* C9: release(q) raises InvalidQuantity exactly when q <= 0 or q exceeds
\* reserved_quantity; otherwise reserved_quantity shrinks by exactly q and the
\* call returns the single event InventoryReleased(product_id, q), never a
\* LowStockDetected.
C9_Release ==
    last.op = "release" =>
        /\ (last.err = InvalidQuantityError) <=>
               (LastArg <= 0 \/ LastArg > last.pre.reserved_quantity)
        /\ last.err \in { NoError, InvalidQuantityError }
        /\ LastOk =>
               /\ agg.reserved_quantity = last.pre.reserved_quantity - LastArg
               /\ last.events = << InventoryReleased(last.pre.product_id, LastArg) >>

\* A successful release that leaves the product below its threshold.
C9_Witness ==
    /\ last.op = "release"
    /\ LastOk
    /\ available_quantity(agg) < agg.minimum_stock_level

\* C10: adjust(x) raises InvalidQuantity for every x < 0 and every x below
\* reserved_quantity, succeeds for every x >= reserved_quantity (equality
\* included); on success total_quantity = x and the first event is
\* InventoryAdjusted(old_quantity = total before, new_quantity = x).
C10_Adjust ==
    last.op = "adjust" =>
        /\ (LastArg < 0 \/ LastArg < last.pre.reserved_quantity) =>
               last.err = InvalidQuantityError
        /\ LastArg >= last.pre.reserved_quantity => LastOk
        /\ LastOk =>
               /\ agg.total_quantity = LastArg
               /\ Len(last.events) >= 1
               /\ last.events[1] =
                      InventoryAdjusted(last.pre.product_id,
                                        last.pre.total_quantity, LastArg)

\* An adjust down to exactly the reserved quantity has just succeeded.
C10_Witness ==
    /\ last.op = "adjust"
    /\ LastOk
    /\ LastArg = last.pre.reserved_quantity
    /\ LastArg > 0
    /\ LastArg < last.pre.total_quantity
    /\ available_quantity(agg) = 0


\* --------------------------------------------------- claims on the service
Finished(t) == req[t].pc \in { "idle", "done" }
AllFinished == \A t \in Threads : Finished(t)

\* Between the return of the locked fetch and the commit inside save.
InTransaction(t) == req[t].pc \in { "call", "save", "commit" }

Succeeded(t, pid) ==
    /\ req[t].pc = "done"
    /\ req[t].err = NoError
    /\ req[t].product_id = pid

DomainErrors == { InvalidQuantityError, InsufficientStockError }

\* The calls of the requests in `order`, applied one after another to `inv`;
\* NoAgg when one of them raises.
RECURSIVE ApplySerial(_, _)
ApplySerial(inv, order) ==
    IF order = << >> THEN inv
    ELSE LET t == Head(order)
             out == Mutate(req[t].op, inv, req[t].arg) IN
         IF out.err # NoError THEN NoAgg ELSE ApplySerial(out.inv, Tail(order))

Orders(S) ==
    { o \in [1 .. Cardinality(S) -> S] :
          \A i, j \in 1 .. Cardinality(S) : i # j => o[i] # o[j] }

SerialResults(pid) ==
    LET ok == { t \in Threads : Succeeded(t, pid) }
        start == Inventory(pid, db0[pid].total_quantity,
                           db0[pid].reserved_quantity,
                           db0[pid].minimum_stock_level) IN
    { ApplySerial(start, o) : o \in Orders(ok) } \ { NoAgg }

RECURSIVE SumOver(_, _, _)
SumOver(S, op, pid) ==
    IF S = {} THEN 0
    ELSE LET t == CHOOSE x \in S : TRUE IN
         (IF Succeeded(t, pid) /\ req[t].op = op THEN req[t].arg ELSE 0)
             + SumOver(S \ { t }, op, pid)

\* C2: for one product_id at most one reserve / release / adjust request is
\* between its locked fetch and its commit; a second request's locked fetch
\* on that product does not return before the first one's transaction ended.
C2_StrictlySerialized ==
    \A t, u \in Threads :
        (t # u /\ InTransaction(t) /\ InTransaction(u)) =>
            req[t].product_id # req[u].product_id

\* C3: no update is lost.  Once every request has ended, the stored row of
\* each product is what the successful calls give when applied one after
\* another in some order, and its reserved_quantity is the initial one plus
\* the quantities successfully reserved minus those successfully released.
C3_NoLostUpdate ==
    AllFinished =>
        \A pid \in Products :
            db0[pid] # NoRow =>
                /\ \E inv \in SerialResults(pid) : db[pid] = FromDomain(inv)
                /\ db[pid].reserved_quantity =
                       db0[pid].reserved_quantity
                           + SumOver(Threads, "reserve", pid)
                           - SumOver(Threads, "release", pid)

\* C4: a request hands an event to the publisher only after its save has
\* committed: whatever a request has published, its commit came first, and a
\* request whose save was not reached or did not commit has published nothing.
C4_PublishAfterCommit ==
    \A t \in Threads :
        /\ req[t].published # << >> => (req[t].saved /\ req[t].committed)
        /\ req[t].pc = "publish" => req[t].committed
        /\ ~req[t].committed => req[t].published = << >>

\* A request has published its InventoryReserved and its LowStockDetected.
C4_Witness ==
    \E t \in Threads :
        /\ req[t].committed
        /\ Len(req[t].published) = 2
        /\ req[t].published[1].type = "InventoryReserved"
        /\ req[t].published[2].type = "LowStockDetected"

\* C5: when the aggregate raises InvalidQuantity or InsufficientStock inside
\* a service method, the request ends with that same error, save is never
\* called, nothing is published, and the request leaves the product's row as
\* it was (the row is the initial one unless another request committed on it).
C5_AggregateErrorAborts ==
    \A t \in Threads :
        req[t].err \in DomainErrors =>
            /\ req[t].pc = "done"
            /\ ~req[t].saved
            /\ ~req[t].committed
            /\ req[t].published = << >>
            /\ req[t].inv # NoAgg =>
                   Mutate(req[t].op, req[t].inv, req[t].arg).err = req[t].err
            /\ (\A u \in Threads \ { t } :
                    ~req[u].committed \/ req[u].product_id # req[t].product_id)
                   => db[req[t].product_id] = db0[req[t].product_id]

\* A reserve beyond the available quantity and an adjust below the reserved
\* quantity have both been refused.
C5_Witness ==
    \E t, u \in Threads :
        /\ req[t].pc = "done" /\ req[t].op = "reserve"
        /\ req[t].err = InsufficientStockError
        /\ req[u].pc = "done" /\ req[u].op = "adjust"
        /\ req[u].err = InvalidQuantityError
        /\ req[u].product_id = req[t].product_id

\* ------------------------------------- claims on creation and on boundaries
\* Empty, or nothing but spaces.
BlankId(pid) == \A i \in 1 .. Len(pid) : pid[i] = " "

\* C11: Inventory.create(product_id, initial, minimum) raises InvalidQuantity
\* exactly when product_id is empty or whitespace-only, or initial < 0, or
\* minimum < 0; otherwise it returns an aggregate with total_quantity =
\* initial, reserved_quantity = 0, minimum_stock_level = minimum, and the events
\* InventoryCreated(initial, minimum) followed by LowStockDetected(initial,
\* minimum) exactly when initial < minimum.
C11_Create ==
    last.op = "create" =>
        LET pid == last.args[1]
            initial == last.args[2]
            minimum == last.args[3] IN
        /\ (last.err = InvalidQuantityError) <=>
               (BlankId(pid) \/ initial < 0 \/ minimum < 0)
        /\ last.err \in { NoError, InvalidQuantityError }
        /\ ~LastOk => agg = NoAgg /\ last.events = << >>
        /\ LastOk =>
               /\ agg.total_quantity = initial
               /\ agg.reserved_quantity = 0
               /\ agg.minimum_stock_level = minimum
               /\ last.events =
                      IF initial < minimum
                      THEN << InventoryCreated(agg.product_id, initial, minimum),
                              LowStockDetected(agg.product_id, initial, minimum) >>
                      ELSE << InventoryCreated(agg.product_id, initial, minimum) >>

\* create with zero stock and a zero threshold has returned InventoryCreated alone.
C11_Witness ==
    /\ last.op = "create"
    /\ LastOk
    /\ last.args[2] = 0
    /\ last.args[3] = 0
    /\ Len(last.events) = 1
    /\ last.events[1].type = "InventoryCreated"

\* C13 as stated: in every valid state reserve(available_quantity) succeeds
\* and leaves available_quantity at 0.
C13_Original ==
    (last.op = "reserve" /\ LastArg = available_quantity(last.pre)) =>
        /\ LastOk
        /\ available_quantity(agg) = 0

\* C13: in every valid state with available_quantity > 0,
\* reserve(available_quantity) succeeds and leaves available_quantity at
\* exactly 0 with total_quantity as it was; with available_quantity = 0 the
\* call is reserve(0), which raises InvalidQuantity and changes nothing.
C13_ReserveAllAvailable ==
    (last.op = "reserve" /\ LastArg = available_quantity(last.pre)) =>
        IF available_quantity(last.pre) > 0
        THEN /\ LastOk
             /\ available_quantity(agg) = 0
             /\ agg.total_quantity = last.pre.total_quantity
             /\ agg.reserved_quantity = agg.total_quantity
        ELSE /\ last.err = InvalidQuantityError
             /\ agg = last.pre

\* On top of an earlier reservation, all that was still available has been
\* reserved.
C13_Witness ==
    /\ last.op = "reserve"
    /\ LastOk
    /\ last.pre.reserved_quantity > 0
    /\ LastArg = available_quantity(last.pre)
    /\ agg.reserved_quantity = agg.total_quantity

\* C14: in every valid state reserve(available_quantity + 1) raises
\* InsufficientStock, not InvalidQuantity, and leaves the state unchanged.
C14_ReserveOneTooMany ==
    (last.op = "reserve" /\ LastArg = available_quantity(last.pre) + 1) =>
        /\ last.err = InsufficientStockError
        /\ agg = last.pre
        /\ last.events = << >>

\* reserve(1) has been refused on an object with nothing available, or
\* reserve(MaxQty + 1) on an object with MaxQty available.
C14_Witness ==
    /\ last.op = "reserve"
    /\ last.err = InsufficientStockError
    /\ LastArg = available_quantity(last.pre) + 1
    /\ available_quantity(last.pre) \in { 0, MaxQty }

\* C15: constructing an Inventory, directly or from a stored row, with
\* total_quantity < 0, reserved_quantity < 0, minimum_stock_level < 0 or
\* reserved_quantity > total_quantity raises InvalidQuantity and yields no
\* object; any other values yield an object holding exactly those values, so
\* no object breaking I1-I4 is obtained and no value is clamped.
C15_Construct ==
    last.op \in { "construct", "to_domain" } =>
        LET total == last.args[2]
            reserved == last.args[3]
            minimum == last.args[4] IN
        IF total < 0 \/ reserved < 0 \/ minimum < 0 \/ reserved > total
        THEN /\ last.err = InvalidQuantityError
             /\ agg = NoAgg
        ELSE /\ LastOk
             /\ agg = Inventory(last.args[1], total, reserved, minimum)

\* A stored row with more reserved than the total has been refused by
\* to_domain.
C15_Witness ==
    /\ last.op = "to_domain"
    /\ last.args[2] >= 0
    /\ last.args[3] > last.args[2]
    /\ last.args[4] >= 0
    /\ last.err = InvalidQuantityError
    /\ agg = NoAgg

\* C20: StockLevelMonitor.apply(event, inventory_after) returns exactly
\* [LowStockDetected(product_id, available_quantity, minimum_stock_level)] of
\* inventory_after when the event is an InventoryReserved or InventoryAdjusted
\* and available_quantity < minimum_stock_level, returns [] in every other
\* case, and never modifies inventory_after.
C20_MonitorApply ==
    last.op = "apply" =>
        LET event == last.args[1]
            inv == last.pre IN
        /\ LastOk
        /\ agg = inv
        /\ last.events =
               IF /\ event.type \in { "InventoryReserved", "InventoryAdjusted" }
                  /\ inv.total_quantity - inv.reserved_quantity
                         < inv.minimum_stock_level
               THEN << LowStockDetected(inv.product_id,
                                        inv.total_quantity - inv.reserved_quantity,
                                        inv.minimum_stock_level) >>
               ELSE << >>

\* apply has returned a LowStockDetected for an InventoryAdjusted on an object
\* one below its threshold.
C20_Witness ==
    /\ last.op = "apply"
    /\ last.args[1].type = "InventoryAdjusted"
    /\ available_quantity(agg) + 1 = agg.minimum_stock_level
    /\ Len(last.events) = 1
    /\ last.events[1].type = "LowStockDetected"

\* ------------------------------------------------ claims on missing products
\* C16: reserve_inventory, release_inventory and adjust_inventory on a
\* product_id without a row end with NotFound whatever the quantity is, before
\* any aggregate is built or called; save is not called, nothing is published,
\* and the product still has no row.
C16_NotFoundFirst ==
    \A t \in Threads :
        (req[t].pc # "idle" /\ db0[req[t].product_id] = NoRow) =>
            /\ req[t].pc = "done"
            /\ req[t].err = InventoryNotFoundError
            /\ req[t].inv = NoAgg
            /\ req[t].events = << >>
            /\ ~req[t].saved
            /\ ~req[t].committed
            /\ req[t].published = << >>
            /\ db[req[t].product_id] = NoRow

\* A reserve of quantity 0 and an adjust, both on a product without a row,
\* have ended with NotFound.
C16_Witness ==
    \E t, u \in Threads :
        /\ req[t].op = "reserve" /\ req[t].arg = 0
        /\ req[t].err = InventoryNotFoundError
        /\ req[u].op = "adjust"
        /\ req[u].err = InventoryNotFoundError
        /\ db[req[t].product_id] = NoRow

\* ------------------------------------------------ claims on the repository
\* The product had no row when the last repository call began.
Missing(pid) == \A m \in reply.before : m.product_id # pid

SameFields(a, b) ==
    /\ a.product_id = b.product_id
    /\ a.total_quantity = b.total_quantity
    /\ a.reserved_quantity = b.reserved_quantity
    /\ a.minimum_stock_level = b.minimum_stock_level

\* C17: repository.get on a product_id without a row returns nothing when
\* for_update is false and raises NotFound when it is true; get_inventory
\* raises NotFound for such a product, and only for such a product; neither
\* call changes the table.
C17_GetMissing ==
    /\ (reply.op = "get" /\ Missing(reply.args[1])) =>
           /\ reply.result = { }
           /\ reply.err = IF reply.args[2] THEN InventoryNotFoundError ELSE NoError
    /\ reply.op = "get_inventory" =>
           /\ (reply.err = InventoryNotFoundError) <=> Missing(reply.args[1])
           /\ Missing(reply.args[1]) => reply.result = { }
    /\ reply.op \in { "get", "get_inventory" } => table = reply.before

\* get_inventory has raised NotFound for one product while the other one is
\* stored.
C17_Witness ==
    /\ reply.op = "get_inventory"
    /\ reply.err = InventoryNotFoundError
    /\ Missing(reply.args[1])
    /\ table # { }

\* C18: repository.save inserts a row when the product_id has none and
\* otherwise overwrites total_quantity, reserved_quantity and
\* minimum_stock_level of its row, leaving every other row alone; after any
\* sequence of saves no product_id has two rows; and get(product_id) right
\* after save(inv) returns an aggregate with inv's four field values.
C18_SaveUpsert ==
    /\ \A pid \in Products : Cardinality(QueryByProduct(table, pid)) <= 1
    /\ reply.op = "save" =>
           LET inv == reply.args[1]
               old == { m \in reply.before : m.product_id = inv.product_id } IN
           /\ reply.err = NoError
           /\ table = (reply.before \ old) \cup
                          { InventoryModel(inv.product_id, inv.total_quantity,
                                           inv.reserved_quantity,
                                           inv.minimum_stock_level) }
           /\ \A for_update \in BOOLEAN :
                  LET got == RepositoryGet(table, inv.product_id, for_update) IN
                  /\ got.err = NoError
                  /\ \E found \in got.result :
                         got.result = { found } /\ SameFields(found, inv)

\* A save has overwritten all three quantities of a stored row while the
\* other product's row stayed.
C18_Witness ==
    /\ reply.op = "save"
    /\ Cardinality(table) = 2
    /\ \E m \in reply.before :
           /\ m.product_id = reply.args[1].product_id
           /\ m.total_quantity # reply.args[1].total_quantity
           /\ m.reserved_quantity # reply.args[1].reserved_quantity
           /\ m.minimum_stock_level # reply.args[1].minimum_stock_level

\* C19: get_low_stock_items / find_low_stock returns exactly the stored
\* products whose total_quantity - reserved_quantity is strictly below
\* minimum_stock_level: each of them once, with its stored values, and no
\* product whose available quantity equals or exceeds its threshold.  It
\* holds of every table written by saves of one session (SpecRepo) and fails
\* on a row that two racing requests left with more reserved than the total.
C19_FindLowStock ==
    reply.op = "get_low_stock_items" =>
        /\ reply.err = NoError
        /\ Stored = reply.before
        /\ \A m \in reply.before :
               (\E inv \in reply.result : inv.product_id = m.product_id)
                   <=> (m.total_quantity - m.reserved_quantity
                            < m.minimum_stock_level)
        /\ \A inv \in reply.result : \E m \in reply.before : SameFields(inv, m)
        /\ \A a, b \in reply.result : a.product_id = b.product_id => a = b

\* ---------------------------------------------------- claims on conservation
\* A release(q) made on an object right after a reserve(q) that returned
\* succeeds and puts total_quantity, reserved_quantity and available_quantity
\* back to what they were before the reserve.
C12_ObjectStep ==
    (/\ last.op = "reserve"
     /\ last.err = NoError
     /\ last'.op = "release"
     /\ last'.args = last.args) =>
        /\ last'.err = NoError
        /\ agg'.total_quantity = last.pre.total_quantity
        /\ agg'.reserved_quantity = last.pre.reserved_quantity
        /\ available_quantity(agg') = available_quantity(last.pre)

\* A release_inventory that began after a reserve_inventory of the same
\* product and quantity had returned, these two being the only requests,
\* succeeds, returns the values the row had before the reserve, and leaves
\* the row with them.
C12_ServiceRoundTrip ==
    \A t, u \in Threads :
        (/\ Succeeded(t, req[u].product_id)
         /\ req[t].op = "reserve"
         /\ req[u].op = "release"
         /\ req[u].arg = req[t].arg
         /\ req[u].pc = "done"
         /\ t \in req[u].after) =>
            LET before == db0[req[u].product_id] IN
            /\ req[u].err = NoError
            /\ req[u].inv.total_quantity = before.total_quantity
            /\ req[u].inv.reserved_quantity = before.reserved_quantity
            /\ available_quantity(req[u].inv)
                   = before.total_quantity - before.reserved_quantity
            /\ db[req[u].product_id] = before

\* C12: conservation.  For every valid state and every q for which
\* reserve(q) succeeds, reserve(q) followed by release(q) succeeds and returns
\* total_quantity, reserved_quantity and available_quantity to their values
\* before the reserve; and the same holds for reserve_inventory followed by
\* release_inventory with the same quantity and no other call in between.
C12_Conservation == [][C12_ObjectStep]_vars /\ []C12_ServiceRoundTrip

\* reserve_inventory has returned, and a release_inventory of the same
\* quantity begun afterwards has returned too, the row being as it was stored
\* at the start.
C12_Witness ==
    \E t, u \in Threads :
        /\ Succeeded(t, req[u].product_id)
        /\ req[t].op = "reserve"
        /\ req[u].op = "release"
        /\ req[u].arg = req[t].arg
        /\ req[u].pc = "done"
        /\ req[u].err = NoError
        /\ t \in req[u].after
        /\ db[req[u].product_id] = db0[req[u].product_id]

\* ------------------------------------------- claims on policy and events
\* The step is the policy applied to the primary event of the successful call
\* of one of ops that came right before, on the object that call left.
PolicyOnPrimary(ops) ==
    /\ last.op \in ops
    /\ last.err = NoError
    /\ last'.op = "apply"
    /\ last'.args[1] = last.events[1]
    /\ last'.pre = agg

\* C21 as stated: after a successful create, reserve or adjust,
\* StockLevelMonitor.apply on the call's primary event and the resulting
\* object returns the LowStockDetected events the call returned after its
\* primary event.
C21_Original ==
    [][ PolicyOnPrimary({ "create", "reserve", "adjust" })
            => last'.events = Tail(last.events) ]_vars

\* C21 amended: after a successful reserve or adjust, StockLevelMonitor.apply
\* on the call's primary event and the resulting object returns the
\* LowStockDetected events the call returned after its primary event; after a
\* successful create it returns no event, whatever create returned.
C21_PolicyConsistent ==
    [][ /\ PolicyOnPrimary({ "reserve", "adjust" })
            => last'.events = Tail(last.events)
        /\ PolicyOnPrimary({ "create" }) => last'.events = << >> ]_vars

\* The policy has returned a LowStockDetected for the InventoryReserved of a
\* reserve of two units of product B.
C21_Witness ==
    /\ last.op = "apply"
    /\ last.args[1] = InventoryReserved(<<"B">>, 2)
    /\ last.pre = agg
    /\ last.events = << LowStockDetected(<<"B">>, available_quantity(agg),
                                         agg.minimum_stock_level) >>
\* The type of the primary event of each call that runs the inline check.
PrimaryType(op) ==
    CASE op = "create" -> "InventoryCreated"
      [] op = "reserve" -> "InventoryReserved"
      [] op = "adjust" -> "InventoryAdjusted"

\* C28: a successful create, reserve or adjust returns its primary event
\* alone, or the primary event followed by one LowStockDetected; the
\* LowStockDetected is there exactly when the object the call leaves is below
\* its threshold (whatever the object was before), it is the last event, and
\* it carries the product_id, available quantity and threshold of the object
\* the call leaves.
C28_EventShape ==
    (last.op \in { "create", "reserve", "adjust" } /\ LastOk) =>
        LET after == agg.total_quantity - agg.reserved_quantity IN
        /\ Len(last.events) \in { 1, 2 }
        /\ last.events[1].type = PrimaryType(last.op)
        /\ last.events[1].product_id = agg.product_id
        /\ Len(last.events) = 2 <=> after < agg.minimum_stock_level
        /\ Len(last.events) = 2 =>
               last.events[2] = [type |-> "LowStockDetected",
                                 product_id |-> agg.product_id,
                                 available_quantity |-> after,
                                 minimum_stock_level |-> agg.minimum_stock_level]

\* An adjust has raised the total of an object that was below its threshold,
\* the object is still below it, and the LowStockDetected was returned.
C28_Witness ==
    /\ last.op = "adjust"
    /\ LastOk
    /\ available_quantity(last.pre) < last.pre.minimum_stock_level
    /\ agg.total_quantity > last.pre.total_quantity
    /\ available_quantity(agg) < agg.minimum_stock_level
    /\ Len(last.events) = 2
    /\ last.events[2].type = "LowStockDetected"
\* C29: a reserve or release call leaves total_quantity as it was, an adjust
\* call leaves reserved_quantity as it was, and no call on an existing object
\* (successful or not) changes its product_id or its minimum_stock_level, so
\* both stay what they were at creation over every sequence of calls.
C29_Frame ==
    [][ agg # NoAgg =>
          /\ agg'.product_id = agg.product_id
          /\ agg'.minimum_stock_level = agg.minimum_stock_level
          /\ last'.op \in { "reserve", "release" }
                 => agg'.total_quantity = agg.total_quantity
          /\ last'.op = "adjust"
                 => agg'.reserved_quantity = agg.reserved_quantity ]_vars

\* A successful adjust has changed the total of an object that has both a
\* reservation and a threshold.
C29_Witness ==
    /\ last.op = "adjust"
    /\ LastOk
    /\ agg.total_quantity # last.pre.total_quantity
    /\ agg.reserved_quantity > 0
    /\ agg.reserved_quantity = last.pre.reserved_quantity
    /\ agg.minimum_stock_level > 0
\* ------------------------------------------------ claims on committed rows
\* C30: whatever the interleaving of the service calls, every row committed
\* to the table has 0 <= reserved_quantity <= total_quantity and
\* minimum_stock_level >= 0, so that every row an unlocked read loads builds
\* a valid aggregate.
C30_CommittedRowsValid ==
    \A pid \in Products :
        db[pid] # NoRow =>
            /\ 0 <= db[pid].reserved_quantity
            /\ db[pid].reserved_quantity <= db[pid].total_quantity
            /\ db[pid].minimum_stock_level >= 0
            /\ ToDomain(pid, db[pid]).err = NoError
\* ------------------------------------- claims on calls one after another
\* The row of its product a call found when it started, the calls coming one
\* after another: the row the last committed call on the product left, or
\* the initial row.
RowBefore(t) ==
    LET pid == req[t].product_id
        prior == { u \in req[t].after :
                       req[u].product_id = pid /\ req[u].committed } IN
    IF prior = { } THEN db0[pid]
    ELSE FromDomain(req[CHOOSE u \in prior : TRUE].inv)

\* What the order_id-free rules give for a call from the row it found.
Expected(t) ==
    IF RowBefore(t) = NoRow THEN Outcome(InventoryNotFoundError, NoAgg, << >>)
    ELSE Mutate(req[t].op, ToDomain(req[t].product_id, RowBefore(t)).inv,
                req[t].arg)

Reservations(events) ==
    Cardinality({ i \in 1 .. Len(events) : events[i].type = "InventoryReserved" })

Overwritten(t) ==
    \E u \in Threads :
        /\ t \in req[u].after
        /\ req[u].product_id = req[t].product_id
        /\ req[u].committed

C26_RowKept ==
    \A t \in Threads :
        req[t].err = PublisherError =>
            /\ req[t].committed
            /\ req[t].inv = Expected(t).inv
            /\ ~Overwritten(t) =>
                   db[req[t].product_id] = FromDomain(req[t].inv)

C26_FailStep ==
    \A t \in Threads :
        (req[t].err # PublisherError /\ req'[t].err = PublisherError)
            => db' = db

\* C26: when the publisher raises while reserve_inventory, release_inventory
\* or adjust_inventory publishes its events, the step changes no row, and the
\* row save committed holds the post-mutation values until a later call
\* commits on the same product.
C26_PublisherFailure == []C26_RowKept /\ [][C26_FailStep]_vars

\* A reserve_inventory has published its InventoryReserved, the publisher has
\* raised on the LowStockDetected, and the row holds the new reservation.
C26_Witness ==
    \E t \in Threads :
        /\ req[t].op = "reserve"
        /\ req[t].err = PublisherError
        /\ Len(req[t].published) = 1
        /\ Len(req[t].events) = 1
        /\ req[t].events[1].type = "LowStockDetected"
        /\ db[req[t].product_id].reserved_quantity
               = db0[req[t].product_id].reserved_quantity + req[t].arg
\* --------------------------------------------- claims on the HTTP routes
\* C27: a get, reserve or release request that ends with NotFound is answered
\* 404, with InsufficientStock 409, with InvalidQuantity 422, with any other
\* exception 500, and a request whose service call returned is answered 200
\* with the total, reserved, available and minimum values of the aggregate
\* the call returned.
C27_StatusMapping ==
    \A t \in Threads :
        req[t].pc = "responded" =>
            /\ req[t].status =
                   CASE req[t].err = NoError -> 200
                     [] req[t].err = InventoryNotFoundError -> 404
                     [] req[t].err = InsufficientStockError -> 409
                     [] req[t].err = InvalidQuantityError -> 422
                     [] OTHER -> 500
            /\ req[t].status = 200 =>
                   /\ req[t].body.total_quantity = req[t].inv.total_quantity
                   /\ req[t].body.reserved_quantity = req[t].inv.reserved_quantity
                   /\ req[t].body.available_quantity =
                          req[t].inv.total_quantity - req[t].inv.reserved_quantity
                   /\ req[t].body.minimum_stock_level =
                          req[t].inv.minimum_stock_level
\* ---------------------------------------------------- claims on creation
\* The step is the repository.create call of request t.
PersistStep(t) == req[t].pc = "persist" /\ req'[t].pc # "persist"

C22_Refused ==
    \A t \in Threads :
        (PersistStep(t) /\ db[req[t].product_id] # NoRow) =>
            /\ req'[t].err = InventoryAlreadyExistsError
            /\ db' = db
            /\ req'[t].pc = "done"
            /\ req'[t].published = << >>

C22_NothingPublished ==
    \A t \in Threads :
        req[t].err = InventoryAlreadyExistsError =>
            /\ req[t].pc = "done"
            /\ req[t].published = << >>
            /\ ~req[t].committed

ValidCreate(t) ==
    /\ req[t].op = "create"
    /\ req[t].err # InvalidQuantityError

ValidArgs(raw) ==
    /\ \E i \in 1 .. Len(raw[1]) : raw[1][i] # " "
    /\ raw[2] >= 0
    /\ raw[3] >= 0

\* The events Inventory.create returns for valid arguments.
CreatedEvents(t) ==
    << [type |-> "InventoryCreated", product_id |-> req[t].product_id,
        initial_quantity |-> req[t].raw[2],
        minimum_stock_level |-> req[t].raw[3]] >>
    \o IF req[t].raw[2] < req[t].raw[3]
       THEN << [type |-> "LowStockDetected", product_id |-> req[t].product_id,
                available_quantity |-> req[t].raw[2],
                minimum_stock_level |-> req[t].raw[3]] >>
       ELSE << >>

C24_Steps ==
    \A t \in Threads :
        req[t].op = "create" =>
            /\ req[t].saved => ValidArgs(req[t].raw)
            /\ ~ValidArgs(req[t].raw) =>
                   /\ req[t].err = InvalidQuantityError
                   /\ req[t].pc = "done"
            /\ req[t].published # << >> =>
                   /\ req[t].committed
                   /\ req[t].published = CreatedEvents(t)
            /\ (req[t].pc = "done" /\ req[t].err = NoError) =>
                   req[t].published = CreatedEvents(t)
            /\ req[t].committed => req[t].saved

C24_Order ==
    \A t \in Threads :
        /\ req'[t].saved # req[t].saved =>
               (req[t].pc = "persist" /\ req[t].err = NoError)
        /\ req'[t].published # req[t].published =>
               /\ req[t].pc = "publish_many"
               /\ req[t].committed
               /\ req[t].published = << >>
               /\ req'[t].pc = "done"

Trimmed(raw, s) ==
    \E i \in 1 .. Len(raw), j \in 1 .. Len(raw) :
        /\ i <= j
        /\ raw[i] # " " /\ raw[j] # " "
        /\ \A k \in 1 .. Len(raw) : (k < i \/ k > j) => raw[k] = " "
        /\ s = [k \in 1 .. j - i + 1 |-> raw[i + k - 1]]

\* C39: after a successful Inventory.create the product_id of the aggregate,
\* and the product_id of every event returned, is the product_id argument
\* without its leading and trailing whitespace.
C39_NormalizedId ==
    (last.op = "create" /\ LastOk) =>
        /\ Trimmed(last.args[1], agg.product_id)
        /\ \A i \in 1 .. Len(last.events) :
               last.events[i].product_id = agg.product_id

\* create(" A ", 0, 1) has returned the aggregate and both events with the
\* product_id "A".
C39_Witness ==
    /\ last.op = "create"
    /\ LastOk
    /\ last.args[1] = << " ", "A", " " >>
    /\ agg.product_id = <<"A">>
    /\ Len(last.events) = 2
    /\ last.events[2].product_id = <<"A">>

\* The step is a call of op right after a call of op that returned.
SecondOf(op) ==
    /\ last.op = op
    /\ last.err = NoError
    /\ last'.op = op

C36_Pair ==
    (SecondOf("release") /\ last'.args[1] > 0) =>
        LET a == last.args[1]
            b == last'.args[1]
            before == last.pre IN
        /\ (last'.err = NoError) <=> (a + b <= before.reserved_quantity)
        /\ (last'.err = NoError) <=> (Release(before, a + b).err = NoError)
        /\ last'.err = NoError =>
               /\ agg' = Release(before, a + b).inv
               /\ agg'.reserved_quantity = before.reserved_quantity - (a + b)
               /\ agg'.total_quantity = before.total_quantity
               /\ available_quantity(agg') = available_quantity(before) + a + b

C36_FirstFails ==
    (last.op = "release" /\ ~LastOk /\ LastArg > 0) =>
        \A b \in 1 .. MaxQty :
            /\ LastArg + b > last.pre.reserved_quantity
            /\ Release(last.pre, LastArg + b).err # NoError

\* C36: for a, b > 0, release(a) then release(b) both succeed exactly when
\* a + b <= reserved_quantity, which is when one release(a + b) succeeds, and
\* the two leave the same total, reserved and available quantities.
C36_ReleaseAdditive == [][C36_Pair]_vars /\ []C36_FirstFails

\* A release of one unit has returned on an object with one unit left
\* reserved, as the second of two releases of one unit does.
C36_Witness ==
    /\ last.op = "release"
    /\ LastOk
    /\ LastArg = 1
    /\ last.pre.reserved_quantity = 1
    /\ agg.reserved_quantity = 0
    /\ agg.total_quantity >= 2

C37_Pair ==
    (SecondOf("adjust") /\ last'.args[1] = last.args[1]) =>
        /\ last'.err = NoError
        /\ agg' = agg

C37_SameTotal ==
    (last.op = "adjust" /\ last.pre # NoAgg /\ LastArg = last.pre.total_quantity) =>
        /\ LastOk
        /\ agg = last.pre
        /\ Len(last.events) \in { 1, 2 }
        /\ last.events[1] = [type |-> "InventoryAdjusted",
                              product_id |-> agg.product_id,
                              old_quantity |-> LastArg, new_quantity |-> LastArg]
        /\ Len(last.events) = 2 <=>
               agg.total_quantity - agg.reserved_quantity < agg.minimum_stock_level
        /\ Len(last.events) = 2 => last.events[2].type = "LowStockDetected"

\* C37: adjust(x) right after a successful adjust(x) succeeds and leaves the
\* state as the first left it, and an adjust to the current total succeeds,
\* changes nothing and returns InventoryAdjusted with old_quantity =
\* new_quantity, followed by LowStockDetected exactly when the object is
\* below its threshold.
C37_AdjustIdempotent == [][C37_Pair]_vars /\ []C37_SameTotal

\* An adjust to the current total of an object below its threshold has
\* returned both events.
C37_Witness ==
    /\ last.op = "adjust"
    /\ LastOk
    /\ LastArg = last.pre.total_quantity
    /\ Len(last.events) = 2
    /\ last.events[1].old_quantity = last.events[1].new_quantity
\* ---- the events as a log of the state ----

\* The sum of the quantities of the events of one type in a list of events.
RECURSIVE SumQuantity(_, _)
SumQuantity(events, type) ==
    IF events = << >> THEN 0
    ELSE (IF Head(events).type = type THEN Head(events).quantity ELSE 0)
         + SumQuantity(Tail(events), type)

\* The total the list of events tells: new_quantity of the latest
\* InventoryAdjusted, or initial_quantity of InventoryCreated when no
\* adjustment is in the list.
RECURSIVE LoggedTotal(_)
LoggedTotal(events) ==
    LET e == events[Len(events)] IN
    IF e.type = "InventoryAdjusted" THEN e.new_quantity
    ELSE IF e.type = "InventoryCreated" THEN e.initial_quantity
    ELSE LoggedTotal(SubSeq(events, 1, Len(events) - 1))

\* C34: after any sequence of successful create / reserve / release / adjust
\* calls on one product made one at a time, reserved_quantity is the sum of
\* the InventoryReserved quantities minus the sum of the InventoryReleased
\* quantities, and total_quantity is new_quantity of the latest
\* InventoryAdjusted (initial_quantity of InventoryCreated when there is
\* none); a call that fails adds no event.
C34_StateFromLog ==
    (log.shared /\ agg # NoAgg) =>
        /\ Len(log.events) >= 1
        /\ log.events[1].type = "InventoryCreated"
        /\ agg.reserved_quantity =
               SumQuantity(log.events, "InventoryReserved")
               - SumQuantity(log.events, "InventoryReleased")
        /\ agg.total_quantity = LoggedTotal(log.events)
C34_NothingFromFailure ==
    (log.shared /\ agg = NoAgg) => log.events = << >>
C34_FailedCall ==
    (log.shared /\ last'.err # NoError) => log'.events = log.events
C34_FaithfulLog ==
    /\ [](C34_StateFromLog /\ C34_NothingFromFailure)
    /\ [][C34_FailedCall]_vars

\* A created object that was reserved, released and adjusted, each of them
\* in the list, followed by a call that failed.
C34_Witness ==
    /\ log.shared
    /\ agg # NoAgg
    /\ SumQuantity(log.events, "InventoryReserved") = 2
    /\ SumQuantity(log.events, "InventoryReleased") = 1
    /\ \E i \in 1 .. Len(log.events) :
          /\ log.events[i].type = "InventoryAdjusted"
          /\ log.events[i].new_quantity # log.events[i].old_quantity
    /\ last.err # NoError

\* ---- two products ----


\* C31: a reserve_inventory, release_inventory or adjust_inventory call on a
\* product never changes the stored row of another product, never publishes
\* an event carrying another product's id, and is never kept from starting by
\* a request that is inside its transaction on another product.
C31_OwnRowOnly ==
    \A t \in Threads :
        req'[t] # req[t] =>
            /\ \A p \in Products \ { req'[t].product_id } : db'[p] = db[p]
            /\ \A i \in 1 .. Len(req'[t].published) :
                  req'[t].published[i].product_id = req'[t].product_id
C31_NotBlocked ==
    \A t \in Threads, u \in Threads, p \in Products :
        (req[t].pc = "idle" /\ InTransaction(u) /\ req[u].product_id # p) =>
            /\ ENABLED reserve_inventory(t, p, 1, SameOrder)
            /\ ENABLED release_inventory(t, p, 1, SameOrder)
            /\ ENABLED adjust_inventory(t, p, 1)
C31_Independent == [][C31_OwnRowOnly]_vars /\ []C31_NotBlocked

\* Two calls on two products that ran at the same time: both committed a
\* change and published, and each product's row is the one its own call left.
C31_Witness ==
    /\ req["t1"].product_id # req["t2"].product_id
    /\ \A t \in Threads :
          /\ req[t].committed /\ req[t].pc = "done"
          /\ req[t].after = { }
          /\ req[t].published # << >>
          /\ db[req[t].product_id] = FromDomain(req[t].inv)
          /\ db[req[t].product_id] # db0[req[t].product_id]

\* ---- the end of a request's transaction ----

\* C32: every reserve_inventory, release_inventory or adjust_inventory call
\* whose locked fetch returned the row ends its transaction, and with it
\* whatever lock on the row it holds, on every path: the commit in save, an
\* error of the aggregate, a failure of the publisher; a row's lock is only
\* ever held by a request inside its transaction, so a request waiting for
\* the row goes on.
C32_HeldInTransaction ==
    \A p \in Products :
        rowLock[p] # NoThread =>
            InTransaction(rowLock[p]) /\ req[rowLock[p]].product_id = p
C32_Ends ==
    \A t \in Threads : InTransaction(t) ~> (req[t].pc = "done")
C33_AllHandedOver ==
    \A t \in Threads :
        (req[t].committed /\ req[t].pc = "done") =>
            /\ req[t].events = << >>
            /\ req[t].published =
                   Mutate(req[t].op, ToDomain(req[t].product_id, RowBefore(t)).inv,
                          req[t].arg).events
            /\ (req[t].op \in { "reserve", "adjust" }
                  /\ available_quantity(req[t].inv) < req[t].inv.minimum_stock_level)
                 => \E i \in 1 .. Len(req[t].published) :
                       req[t].published[i].type = "LowStockDetected"

\* ---- one publisher for concurrent calls ----

\* The events of one type and product in a list of events, in their order.
RECURSIVE EventsOf(_, _, _)
EventsOf(events, type, pid) ==
    IF events = << >> THEN << >>
    ELSE (IF Head(events).type = type /\ Head(events).product_id = pid
          THEN << Head(events) >> ELSE << >>)
         \o EventsOf(Tail(events), type, pid)

\* C35: concurrent service calls on one product that share one publisher
\* have their events published in commit order: of two InventoryAdjusted
\* events of a product published one after the other, the later one's
\* old_quantity is the earlier one's new_quantity.
C35_CommitOrder ==
    \A p \in Products :
        LET adjusted == EventsOf(log.events, "InventoryAdjusted", p) IN
        \A i \in 1 .. Len(adjusted) - 1 :
            adjusted[i + 1].old_quantity = adjusted[i].new_quantity

\* ---- deletion ----

\* C38: once repository.delete(product_id) has committed, an unlocked get
\* returns no result, a locked get fails with NotFound, and no
\* reserve_inventory / release_inventory / adjust_inventory call, not even
\* one that fetched before the deletion, stores a row for the product again.
C38_NoInsert ==
    \A p \in Products : db[p] = NoRow => db'[p] = NoRow
C38_AbsentReads ==
    \A t \in Threads :
        (req[t].pc = "idle" /\ req'[t].pc # "idle"
           /\ db[req'[t].product_id] = NoRow) =>
            /\ req'[t].pc = "done"
            /\ req'[t].err = InventoryNotFoundError
            /\ req'[t].inv = NoAgg
C38_StaysDeleted == [][C38_NoInsert /\ C38_AbsentReads]_vars

====
